---- MODULE Spec2Model ----
(***************************************************************************)
(* The reduce transform of src/src/transforms/reduce/mod.rs: the bucket    *)
(* map keyed by discriminant, the boundary conditions, the staleness       *)
(* sweep, the final drain, and the select loop that drives them.           *)
(*                                                                         *)
(* Time is counted in units of one flush period, so the interval timer    *)
(* has a tick due at every value of the clock: a tick may be taken at any  *)
(* select, and a tick taken again at the same time finds nothing stale.    *)
(* Strings are sequences of one-character strings so that the path parser  *)
(* can be modelled by what it does to the characters.                      *)
(***************************************************************************)
EXTENDS Integers, Sequences, FiniteSets, TLC

\* ---------------------------------------------------------------- bounds
MaxEvents == 3      \* upstream items read before upstream must end
MaxTime   == 2      \* the clock runs from 0 to MaxTime
MaxExpire == 2      \* expire_after is 0 or MaxExpire
MaxLen    == 4      \* characters typed into a path expression
MaxIndices == 2     \* bracketed indices appended to a path expression
MaxSegments == 3    \* segments of a path that is pushed to or extended
MaxNodes  == 4      \* values, nested ones included, in the map given to all_fields
MaxLines  == 2      \* items stdin.lines() yields before the end of the input

\* ---------------------------------------------------------------- values
\* Option<Value>::None, as Discriminant and LogEvent::get report a miss
Absent == [t |-> "Absent", i |-> 0, s |-> ""]
\* Value::Integer
Integer(n) == [t |-> "Integer", i |-> n, s |-> ""]
\* Value::Bytes
Bytes(str) == [t |-> "Bytes", i |-> 0, s |-> str]
\* Value::Array
Array(elems) == [t |-> "Array", i |-> 0, s |-> "", a |-> elems]
\* Value::Null
Null == [t |-> "Null", i |-> 0, s |-> ""]
\* Value::Map
Map(entries) == [t |-> "Map", i |-> 0, s |-> "", m |-> entries]

EmptyMap == [k \in {} |-> Absent]

Remove(m, k) == [x \in DOMAIN m \ {k} |-> m[x]]

Put(m, k, v) == [x \in DOMAIN m \cup {k} |-> IF x = k THEN v ELSE m[x]]

\* the enumerations of a finite set: the orders a HashMap may iterate in
Orders(S) ==
    { ord \in [1..Cardinality(S) -> S] :
        \A a, b \in 1..Cardinality(S) : a # b => ord[a] # ord[b] }

\* ---------------------------------------------------------------- paths
\* Segment::field
FieldSeg(name) == [kind |-> "field", name |-> name, index |-> 0]

\* Segment::index
IndexSeg(n) == [kind |-> "index", name |-> <<>>, index |-> n]

Digits == <<"0", "1", "2", "3", "4", "5", "6", "7", "8", "9">>

\* the first position from i on that holds a character of stop, or Len + 1
Scan(str, i, stop) ==
    LET hits == { j \in i..Len(str) : str[j] \in stop }
    IN  IF hits = {} THEN Len(str) + 1
        ELSE CHOOSE j \in hits : \A h \in hits : j <= h

\* the number a run of digits denotes
RECURSIVE ToNat(_)
ToNat(digits) ==
    IF digits = <<>> THEN 0
    ELSE 10 * ToNat(SubSeq(digits, 1, Len(digits) - 1))
            + ((CHOOSE d \in DOMAIN Digits : Digits[d] = digits[Len(digits)]) - 1)

\* the decimal digits of a number
RECURSIVE FromNat(_)
FromNat(n) ==
    IF n < 10 THEN <<Digits[n + 1]>>
    ELSE Append(FromNat(n \div 10), Digits[(n % 10) + 1])

\* field := quoted-field | bare-field, read from position i; a quoted
\* field keeps its quotes, a bare field ends before `.`, `[` or `"`
parse_field(str, i) ==
    IF i > Len(str) THEN [ok |-> FALSE, seg |-> FieldSeg(<<>>), next |-> i]
    ELSE IF str[i] = "\""
    THEN LET j == Scan(str, i + 1, {"\""})
         IN  [ok |-> j <= Len(str) /\ j > i + 1,
              seg |-> FieldSeg(SubSeq(str, i, IF j <= Len(str) THEN j ELSE Len(str))),
              next |-> j + 1]
    ELSE LET j == Scan(str, i, {".", "[", "\""})
         IN  [ok |-> j > i, seg |-> FieldSeg(SubSeq(str, i, j - 1)), next |-> j]

\* index* that keeps one index per field, the last one
RECURSIVE parse_indices_last(_, _, _)
parse_indices_last(str, i, acc) ==
    IF i > Len(str) \/ str[i] # "["
    THEN [ok |-> TRUE, segs |-> acc, next |-> i]
    ELSE LET j == Scan(str, i + 1, {"]"})
             digits == SubSeq(str, i + 1, j - 1)
             kept == IF acc # <<>> /\ acc[Len(acc)].kind = "index"
                     THEN SubSeq(acc, 1, Len(acc) - 1) ELSE acc
         IN  IF /\ j <= Len(str)
                /\ digits # <<>>
                /\ \A n \in DOMAIN digits : \E d \in DOMAIN Digits : Digits[d] = digits[n]
             THEN parse_indices_last(str, j + 1, Append(kept, IndexSeg(ToNat(digits))))
             ELSE [ok |-> FALSE, segs |-> acc, next |-> i]

\* index*, read from position i: `[` digits `]`, one segment per pair
RECURSIVE parse_indices(_, _, _)
parse_indices(str, i, acc) ==
    IF i > Len(str) \/ str[i] # "["
    THEN [ok |-> TRUE, segs |-> acc, next |-> i]
    ELSE LET j == Scan(str, i + 1, {"]"})
             digits == SubSeq(str, i + 1, j - 1)
         IN  IF /\ j <= Len(str)
                /\ digits # <<>>
                /\ \A n \in DOMAIN digits : \E d \in DOMAIN Digits : Digits[d] = digits[n]
             THEN parse_indices(str, j + 1, Append(acc, IndexSeg(ToNat(digits))))
             ELSE [ok |-> FALSE, segs |-> acc, next |-> i]

\* path := segment ('.' segment)*, segment := field index*
RECURSIVE parse_path(_, _, _)
parse_path(str, i, acc) ==
    LET f == parse_field(str, i)
        x == parse_indices(str, f.next, Append(acc, f.seg))
    IN  IF ~f.ok \/ ~x.ok THEN [ok |-> FALSE, path |-> <<>>]
        ELSE IF x.next > Len(str) THEN [ok |-> TRUE, path |-> x.segs]
        ELSE IF str[x.next] = "." THEN parse_path(str, x.next + 1, x.segs)
        ELSE [ok |-> FALSE, path |-> <<>>]

\* from_str that takes the empty string for the path of no segment
from_str_lenient(str) ==
    IF str = <<>> THEN [ok |-> TRUE, path |-> <<>>]
    ELSE parse_path(str, 1, <<>>)

\* LookupBuf::from_str: the parsing constructor; the empty string is the
\* EmptyPath error
from_str(str) ==
    IF str = <<>> THEN [ok |-> FALSE, path |-> <<>>]
    ELSE parse_path(str, 1, <<>>)

\* impl Index<usize> for Lookup: the segment at a 0-based position
index(path, i) == path[i + 1]

\* to_string that separates an index from what precedes it like a field
RECURSIVE to_string_dotted(_)
to_string_dotted(path) ==
    IF path = <<>> THEN <<>>
    ELSE LET last == path[Len(path)]
             front == to_string_dotted(SubSeq(path, 1, Len(path) - 1))
             text == IF last.kind = "index"
                     THEN <<"[">> \o FromNat(last.index) \o <<"]">>
                     ELSE last.name
         IN  IF Len(path) = 1 THEN text ELSE front \o <<".">> \o text

\* Lookup::to_string: fields joined by `.`, an index as `[n]` right after
\* what precedes it
RECURSIVE to_string(_)
to_string(path) ==
    IF path = <<>> THEN <<>>
    ELSE LET last == path[Len(path)]
             front == to_string(SubSeq(path, 1, Len(path) - 1))
         IN  IF last.kind = "index"
             THEN front \o <<"[">> \o FromNat(last.index) \o <<"]">>
             ELSE IF Len(path) = 1 THEN last.name
             ELSE front \o <<".">> \o last.name

\* a raw constructor that parses what it can
from_raw_parsed(str) ==
    IF parse_path(str, 1, <<>>).ok THEN parse_path(str, 1, <<>>).path
    ELSE <<FieldSeg(str)>>

\* LookupBuf::from: the raw constructor, the whole string is one field
from_raw(str) == <<FieldSeg(str)>>

\* Lookup::push: one more segment at the tail
push(path, segment) == Append(path, segment)

\* Lookup::pop: the segment at the tail is removed and returned, None
\* (no segment) when there is none
pop(path) ==
    IF path = <<>> THEN [path |-> path, out |-> <<>>]
    ELSE [path |-> SubSeq(path, 1, Len(path) - 1), out |-> <<path[Len(path)]>>]

\* Lookup::extend: all the segments of the other path, appended in order
extend(path, other) == path \o other

\* ---------------------------------------------------------------- events
RequestId == <<"r", "i", "d">>
Counter   == <<"n">>
Dotted    == <<"a", ".", "b">>
TestEnd   == <<"e", "n", "d">>

RidOpts == { EmptyMap, RequestId :> Bytes("1"), RequestId :> Bytes("2") }
NumOpts == { Counter :> Integer(1), Counter :> Integer(2),
             Dotted :> Integer(1), Dotted :> Integer(2) }
EndOpts == { EmptyMap, TestEnd :> Bytes("yep") }

\* upstream events that differ in their group and in the boundary field:
\* the groups "1", "2" and none, and for "1" and none the boundary field
RoutingEvents ==
    { r @@ (Counter :> Integer(1)) : r \in RidOpts }
        \cup { r @@ (Counter :> Integer(1)) @@ (TestEnd :> Bytes("yep")) :
                  r \in { EmptyMap, RequestId :> Bytes("1") } }

\* upstream events of one group that differ in the fields to merge
MergingEvents ==
    { (RequestId :> Bytes("1")) @@ n @@ e : n \in NumOpts, e \in EndOpts }

\* the field the strategies of the tests are configured for
Foo == <<"f">>

\* the values one event may carry for it: two strings, two numbers, an array
FooVals == { Bytes("x"), Bytes("y"), Integer(1), Integer(2), Array(<<Integer(1)>>) }

\* upstream events of the group "1" that differ in the value of the field,
\* each with a counter of 1, two of them with the boundary field, and one
\* event of the group of the events without request_id
StrategiesEvents ==
    { (RequestId :> Bytes("1")) @@ (Counter :> Integer(1)) @@ (Foo :> v) :
         v \in FooVals }
        \cup { (RequestId :> Bytes("1")) @@ (Counter :> Integer(1)) @@ (Foo :> v)
                  @@ (TestEnd :> Bytes("yep")) : v \in { Bytes("y"), Integer(2) } }
        \cup { (Counter :> Integer(1)) @@ (Foo :> Bytes("x")) }

\* the values of the field in test::arrays
ArraysVals ==
    { Array(<<Integer(1), Integer(3)>>), Array(<<Integer(5), Integer(7)>>), Bytes("done") }

\* the events of one group of test::arrays: the field holds an array or
\* "done", and "done" comes with or without the boundary field
ArraysEvents ==
    { (RequestId :> Bytes("1")) @@ (Foo :> v) : v \in ArraysVals }
        \cup { (RequestId :> Bytes("1")) @@ (Foo :> Bytes("done"))
                  @@ (TestEnd :> Bytes("yep")) }

\* LogEvent::get for the flat events above
get(fields, path) ==
    IF Len(path) = 1 /\ path[1].kind = "field" /\ path[1].name \in DOMAIN fields
    THEN fields[path[1].name]
    ELSE Absent

\* Discriminant::from_log_event
from_log_event(fields, group_by) ==
    [n \in DOMAIN group_by |-> get(fields, group_by[n])]

\* the condition of the tests: "test_end.exists" = true
check(fields) == TestEnd \in DOMAIN fields

\* ---------------------------------------------------------------- mergers
\* impl From<Value> for Box<dyn ReduceValueMerger>: the type-dependent
\* default, numbers are summed and anything else keeps the first value
default_merger(v) ==
    IF v.t = "Integer" THEN [kind |-> "AddNumbers", v |-> v]
                       ELSE [kind |-> "Discard", v |-> v]

\* get_value_merger: the merger of a configured strategy
get_value_merger(v, strat) ==
    CASE strat = "discard" -> [ok |-> TRUE, m |-> [kind |-> "Discard", v |-> v]]
      [] strat = "sum" ->
            IF v.t = "Integer" THEN [ok |-> TRUE, m |-> [kind |-> "AddNumbers", v |-> v]]
                               ELSE [ok |-> FALSE, m |-> [kind |-> "None", v |-> v]]
      [] strat = "max" ->
            IF v.t = "Integer" THEN [ok |-> TRUE, m |-> [kind |-> "Max", v |-> v]]
                               ELSE [ok |-> FALSE, m |-> [kind |-> "None", v |-> v]]
      [] strat = "concat" ->
            IF v.t = "Bytes" THEN [ok |-> TRUE, m |-> [kind |-> "Concat", v |-> v]]
            ELSE IF v.t = "Array" THEN [ok |-> TRUE, m |-> [kind |-> "ConcatArray", v |-> v]]
            ELSE [ok |-> FALSE, m |-> [kind |-> "None", v |-> v]]
      [] strat = "array" -> [ok |-> TRUE, m |-> [kind |-> "Array", v |-> Array(<<v>>)]]

\* add that appends an array to an array of concat as one element
merger_add_nested(m, v) ==
    CASE m.kind = "Discard" -> [ok |-> TRUE, m |-> m]
      [] m.kind = "AddNumbers" ->
            IF v.t = "Integer" THEN [ok |-> TRUE, m |-> [m EXCEPT !.v = Integer(m.v.i + v.i)]]
                               ELSE [ok |-> FALSE, m |-> m]
      [] m.kind = "Max" ->
            IF v.t = "Integer"
            THEN [ok |-> TRUE, m |-> [m EXCEPT !.v = IF v.i > m.v.i THEN v ELSE m.v]]
            ELSE [ok |-> FALSE, m |-> m]
      [] m.kind = "Concat" ->
            IF v.t = "Bytes"
            THEN [ok |-> TRUE, m |-> [m EXCEPT !.v = Bytes(m.v.s \o " " \o v.s)]]
            ELSE [ok |-> FALSE, m |-> m]
      [] m.kind \in {"ConcatArray", "Array"} ->
            [ok |-> TRUE, m |-> [m EXCEPT !.v = Array(Append(m.v.a, v))]]

\* ReduceValueMerger::add
merger_add(m, v) ==
    CASE m.kind = "Discard" -> [ok |-> TRUE, m |-> m]
      [] m.kind = "AddNumbers" ->
            IF v.t = "Integer" THEN [ok |-> TRUE, m |-> [m EXCEPT !.v = Integer(m.v.i + v.i)]]
                               ELSE [ok |-> FALSE, m |-> m]
      [] m.kind = "Max" ->
            IF v.t = "Integer"
            THEN [ok |-> TRUE, m |-> [m EXCEPT !.v = IF v.i > m.v.i THEN v ELSE m.v]]
            ELSE [ok |-> FALSE, m |-> m]
      [] m.kind = "Concat" ->
            IF v.t = "Bytes"
            THEN [ok |-> TRUE, m |-> [m EXCEPT !.v = Bytes(m.v.s \o " " \o v.s)]]
            ELSE [ok |-> FALSE, m |-> m]
      [] m.kind = "ConcatArray" ->
            IF v.t = "Array"
            THEN [ok |-> TRUE, m |-> [m EXCEPT !.v = Array(m.v.a \o v.a)]]
            ELSE [ok |-> TRUE, m |-> [m EXCEPT !.v = Array(Append(m.v.a, v))]]
      [] m.kind = "Array" ->
            [ok |-> TRUE, m |-> [m EXCEPT !.v = Array(Append(m.v.a, v))]]

\* ReduceValueMerger::insert_into: LogEvent::insert of the final value
insert_into(m, k, event) == [event EXCEPT !.fields = Put(event.fields, k, m.v)]

\* ---------------------------------------------------------------- state
VARIABLES
    cfg,                  \* the ReduceConfig given to Reduce::new
    pc,                   \* where the task is: new, failed, select, yield, done, panicked
    reduce_merge_states,  \* Reduce.reduce_merge_states: Discriminant -> ReduceState
    now,                  \* the clock Instant::now() reads
    output,               \* the batch of the current iteration not yet yielded
    done,                 \* the value of `done` of the current iteration
    branch,               \* the select! branch the current iteration took
    before,               \* reduce_merge_states as the current iteration found it
    batch,                \* the whole batch the current iteration produced
    out,                  \* the events downstream has received, in order
    input,                \* the events upstream has delivered, in order
    upstream,             \* the field maps of the events upstream may deliver
    ended,                \* upstream has reported its end
    completions,          \* how many times the output stream has ended
    lookup_pc,            \* the path expression is off, typing, parsed or rendered
    lookup_input,         \* the string given to Lookup::from_str
    lookup_pushed,        \* how many bracketed indices the string was extended by
    lookup,               \* the result of Lookup::from_str or Lookup::from
    rendered,             \* the result of Lookup::to_string
    popped,               \* what the last Lookup::pop returned: no or one segment
    fields_pc,            \* the traversal is off, new, iterating, done (None
                          \* returned once) or exhausted (and again)
    tree,                 \* the BTreeMap given to all_fields
    iter_stack,           \* FieldsIter.stack
    iter_path,            \* FieldsIter.path
    yielded,              \* the items FieldsIter::next has returned, in order
    stdin_input,          \* everything stdin.lines() yields, in order
    stdin_pc,             \* the source task is off, forwarding or finished
    thread_pc,            \* the background thread is off, reading or has returned
    lines,                \* what stdin.lines() has still to yield
    channel,              \* the lines sent and not yet received
    shutdown,             \* the shutdown signal has fired
    rx_open,              \* the receiver of the pipeline is alive
    pipeline,             \* the events the pipeline has accepted, in order
    pipeline_closed,      \* the sender of the pipeline has been dropped
    res                   \* the result of the source task

lookup_vars == <<lookup_pc, lookup_input, lookup_pushed, lookup, rendered, popped>>

fields_vars == <<fields_pc, tree, iter_stack, iter_path, yielded>>

stdin_vars == <<stdin_input, stdin_pc, thread_pc, lines, channel, shutdown, rx_open,
                pipeline, pipeline_closed, res>>

other_vars == <<lookup_vars, fields_vars, stdin_vars>>

reduce_vars == <<cfg, pc, reduce_merge_states, now, output, done, branch,
                 before, batch, out, input, upstream, ended, completions>>

vars == <<cfg, pc, reduce_merge_states, now, output, done, branch,
          before, batch, out, input, upstream, ended, completions, other_vars>>

\* no traversal has been constructed
FieldsOff ==
    /\ fields_pc = "off"
    /\ tree = [k \in {} |-> 0]
    /\ iter_stack = <<>>
    /\ iter_path = <<>>
    /\ yielded = <<>>

\* no stdin source has been built
StdinOff ==
    /\ stdin_input = <<>>
    /\ stdin_pc = "off"
    /\ thread_pc = "off"
    /\ lines = <<>>
    /\ channel = <<>>
    /\ shutdown = FALSE
    /\ rx_open = FALSE
    /\ pipeline = <<>>
    /\ pipeline_closed = FALSE
    /\ res = "none"

\* the merge_strategies tables of the configurations explored
NoStrategies == [k \in {} |-> "discard"]
StrategyConfigs ==
    { NoStrategies, from_str(Counter).path :> "max", from_str(Dotted).path :> "max" }

\* the condition configurations: none, one that builds, one whose build fails
CondConfigs == {"None", "Some", "Invalid"}

RoutingConfigs ==
    [ ends_when : CondConfigs, starts_when : CondConfigs,
      expire_after : {0, MaxExpire},
      group_by : { <<from_str(RequestId).path>> },
      merge_strategies : { NoStrategies } ]

\* the strategies configured for the field: none, concat, array, max
FooStrategies ==
    { NoStrategies } \cup
    { from_str(Foo).path :> strat : strat \in {"concat", "array", "max"} }

StrategiesConfigs ==
    [ ends_when : {"Some"}, starts_when : {"None"},
      expire_after : {MaxExpire},
      group_by : { <<from_str(RequestId).path>> },
      merge_strategies : FooStrategies ]

MergingConfigs ==
    [ ends_when : {"None", "Some"}, starts_when : {"None"},
      expire_after : {MaxExpire},
      group_by : { <<from_str(RequestId).path>> },
      merge_strategies : StrategyConfigs ]

\* the key ReduceState::new files a field under
new_key(k) == IF from_str(k).ok THEN from_str(k).path ELSE from_raw(k)

\* ReduceState::new that gives every field its type-dependent default
ReduceState_new_default(e, strategies, t) ==
    [ stale_since |-> t,
      fields |-> [ p \in { new_key(k) : k \in DOMAIN e.fields } |->
                     default_merger(e.fields[CHOOSE k \in DOMAIN e.fields : new_key(k) = p]) ],
      events |-> <<e.id>> ]

\* ReduceState::new.  `events` lists the ids of the events merged so far.
ReduceState_new(e, strategies, t) ==
    LET kept == { k \in DOMAIN e.fields :
                    new_key(k) \in DOMAIN strategies
                        => get_value_merger(e.fields[k], strategies[new_key(k)]).ok }
        keyOf(p) == CHOOSE k \in kept : new_key(k) = p
    IN  [ stale_since |-> t,
          fields |-> [ p \in { new_key(k) : k \in kept } |->
                         IF p \in DOMAIN strategies
                         THEN get_value_merger(e.fields[keyOf(p)], strategies[p]).m
                         ELSE default_merger(e.fields[keyOf(p)]) ],
          events |-> <<e.id>> ]

\* add_event whose occupied entry is replaced by a merger of the new value
add_field_replace(fields, k, v, strategies) ==
    LET k_lookup == from_raw(k)
    IN  IF k_lookup \in DOMAIN strategies
        THEN IF k_lookup \notin DOMAIN fields
             THEN IF get_value_merger(v, strategies[k_lookup]).ok
                  THEN Put(fields, k_lookup, get_value_merger(v, strategies[k_lookup]).m)
                  ELSE fields
             ELSE IF merger_add(fields[k_lookup], v).ok
                  THEN Put(fields, k_lookup, merger_add(fields[k_lookup], v).m)
                  ELSE fields
        ELSE Put(fields, k_lookup, default_merger(v))

\* add_event that drops the merger a contribution failed to merge into
add_field_dropfailed(fields, k, v, strategies) ==
    LET k_lookup == from_raw(k)
    IN  IF k_lookup \notin DOMAIN fields
        THEN IF k_lookup \in DOMAIN strategies
             THEN IF get_value_merger(v, strategies[k_lookup]).ok
                  THEN Put(fields, k_lookup, get_value_merger(v, strategies[k_lookup]).m)
                  ELSE fields
             ELSE Put(fields, k_lookup, default_merger(v))
        ELSE IF merger_add(fields[k_lookup], v).ok
             THEN Put(fields, k_lookup, merger_add(fields[k_lookup], v).m)
             ELSE Remove(fields, k_lookup)

\* add_event that leaves an occupied entry as it is
add_field_skip(fields, k, v, strategies) ==
    LET k_lookup == from_raw(k)
    IN  IF k_lookup \notin DOMAIN fields
        THEN IF k_lookup \in DOMAIN strategies
             THEN IF get_value_merger(v, strategies[k_lookup]).ok
                  THEN Put(fields, k_lookup, get_value_merger(v, strategies[k_lookup]).m)
                  ELSE fields
             ELSE Put(fields, k_lookup, default_merger(v))
        ELSE fields

\* one pass of the loop of ReduceState::add_event over the field (k, v)
add_field(fields, k, v, strategies) ==
    LET k_lookup == from_raw(k)
    IN  IF k_lookup \notin DOMAIN fields
        THEN IF k_lookup \in DOMAIN strategies
             THEN IF get_value_merger(v, strategies[k_lookup]).ok
                  THEN Put(fields, k_lookup, get_value_merger(v, strategies[k_lookup]).m)
                  ELSE fields
             ELSE Put(fields, k_lookup, default_merger(v))
        ELSE IF merger_add(fields[k_lookup], v).ok
             THEN Put(fields, k_lookup, merger_add(fields[k_lookup], v).m)
             ELSE fields

RECURSIVE add_fields(_, _, _, _)
add_fields(fields, keys, e, strategies) ==
    IF keys = {} THEN fields
    ELSE LET k == CHOOSE x \in keys : TRUE
         IN  add_fields(add_field(fields, k, e.fields[k], strategies),
                        keys \ {k}, e, strategies)

\* add_event that merges nothing of an event one field of which fails
add_event_atomic(state, e, strategies, t) ==
    [ stale_since |-> t,
      fields |-> IF \E k \in DOMAIN e.fields :
                       IF from_raw(k) \in DOMAIN state.fields
                       THEN ~merger_add(state.fields[from_raw(k)], e.fields[k]).ok
                       ELSE /\ from_raw(k) \in DOMAIN strategies
                            /\ ~get_value_merger(e.fields[k], strategies[from_raw(k)]).ok
                 THEN state.fields
                 ELSE add_fields(state.fields, DOMAIN e.fields, e, strategies),
      events |-> Append(state.events, e.id) ]

\* add_event that leaves stale_since as it was
add_event_notouch(state, e, strategies, t) ==
    [ stale_since |-> state.stale_since,
      fields |-> add_fields(state.fields, DOMAIN e.fields, e, strategies),
      events |-> Append(state.events, e.id) ]

\* ReduceState::add_event
add_event(state, e, strategies, t) ==
    [ stale_since |-> t,
      fields |-> add_fields(state.fields, DOMAIN e.fields, e, strategies),
      events |-> Append(state.events, e.id) ]

RECURSIVE drain_fields(_, _, _)
drain_fields(fields, paths, event) ==
    IF paths = {} THEN event
    ELSE LET p == CHOOSE x \in paths : TRUE
         IN  drain_fields(fields, paths \ {p}, insert_into(fields[p], p, event))

\* ReduceState::flush that leaves one merger out
flush_skip(state) ==
    drain_fields(state.fields,
                 DOMAIN state.fields \ {CHOOSE p \in DOMAIN state.fields : TRUE},
                 [fields |-> [p \in {} |-> Absent], ids |-> state.events])

\* ReduceState::flush.  `ids` lists the events the output was merged from.
flush(state) ==
    drain_fields(state.fields, DOMAIN state.fields,
                 [fields |-> [p \in {} |-> Absent], ids |-> state.events])

\* flush_into with `>` for `>=`
flush_into_strict(states, outp, t) ==
    LET stale == { k \in DOMAIN states : t - states[k].stale_since > cfg.expire_after }
    IN  { [ states |-> [k \in DOMAIN states \ stale |-> states[k]],
            output |-> outp \o [n \in 1..Cardinality(stale) |-> flush(states[ord[n]])] ]
          : ord \in Orders(stale) }

\* flush_into that emits the stale buckets and leaves them in the map
flush_into_keep(states, outp, t) ==
    LET stale == { k \in DOMAIN states : t - states[k].stale_since >= cfg.expire_after }
    IN  { [ states |-> states,
            output |-> outp \o [n \in 1..Cardinality(stale) |-> flush(states[ord[n]])] ]
          : ord \in Orders(stale) }

\* the outcomes of Reduce::flush_into, one per iteration order of the map
flush_into(states, outp, t) ==
    LET stale == { k \in DOMAIN states : t - states[k].stale_since >= cfg.expire_after }
    IN  { [ states |-> [k \in DOMAIN states \ stale |-> states[k]],
            output |-> outp \o [n \in 1..Cardinality(stale) |-> flush(states[ord[n]])] ]
          : ord \in Orders(stale) }

\* flush_all_into that drains only what the staleness sweep would
flush_all_into_stale(states, outp) ==
    LET stale == { k \in DOMAIN states : now - states[k].stale_since >= cfg.expire_after }
    IN  { [ states |-> [k \in {} |-> 0],
            output |-> outp \o [n \in 1..Cardinality(stale) |-> flush(states[ord[n]])] ]
          : ord \in Orders(stale) }

\* the outcomes of Reduce::flush_all_into
flush_all_into(states, outp) ==
    { [ states |-> [k \in {} |-> 0],
        output |-> outp \o [n \in 1..Cardinality(DOMAIN states) |-> flush(states[ord[n]])] ]
      : ord \in Orders(DOMAIN states) }

\* push_or_new_reduce_state that overwrites an occupied entry
push_or_new_overwrite(states, event, discriminant, t) ==
    Put(states, discriminant, ReduceState_new(event, cfg.merge_strategies, t))

\* push_or_new_reduce_state that resets the staleness timer of every bucket
push_or_new_touch_all(states, event, discriminant, t) ==
    LET touched == [d \in DOMAIN states |-> [states[d] EXCEPT !.stale_since = t]]
    IN  IF discriminant \notin DOMAIN states
        THEN Put(touched, discriminant, ReduceState_new(event, cfg.merge_strategies, t))
        ELSE Put(touched, discriminant,
                 add_event(states[discriminant], event, cfg.merge_strategies, t))

\* Reduce::push_or_new_reduce_state
push_or_new_reduce_state(states, event, discriminant, t) ==
    IF discriminant \notin DOMAIN states
    THEN Put(states, discriminant, ReduceState_new(event, cfg.merge_strategies, t))
    ELSE Put(states, discriminant,
             add_event(states[discriminant], event, cfg.merge_strategies, t))

starts_here(event) == cfg.starts_when = "Some" /\ check(event.fields)
ends_here(event)   == cfg.ends_when = "Some" /\ check(event.fields)

\* a discriminant that ignores group_by
discriminant_of_nogroup(event) == from_log_event(event.fields, <<>>)

\* a discriminant that files a missing field under a default value
discriminant_of_default(event) ==
    [ n \in DOMAIN cfg.group_by |->
        IF get(event.fields, cfg.group_by[n]) = Absent
        THEN Bytes("1")
        ELSE get(event.fields, cfg.group_by[n]) ]

\* the discriminant transform_one files the event under
discriminant_of(event) == from_log_event(event.fields, cfg.group_by)

\* the starts_here branch without the removal of the open bucket
starts_branch_keep(states, outp, event, discriminant, t) ==
    [ output |-> outp,
      states |-> push_or_new_reduce_state(states, event, discriminant, t) ]

\* the starts_here branch that drops the open bucket without emitting it
starts_branch_drop(states, outp, event, discriminant, t) ==
    [ output |-> outp,
      states |-> push_or_new_reduce_state(Remove(states, discriminant),
                                          event, discriminant, t) ]

\* transform_one, the branch `if starts_here`
starts_branch(states, outp, event, discriminant, t) ==
    [ output |-> IF discriminant \in DOMAIN states
                 THEN Append(outp, flush(states[discriminant]))
                 ELSE outp,
      states |-> push_or_new_reduce_state(Remove(states, discriminant),
                                          event, discriminant, t) ]

\* the ends_here branch that flushes the bucket as it was
ends_branch_nomerge(states, outp, event, discriminant, t) ==
    [ output |-> Append(outp,
                    IF discriminant \in DOMAIN states
                    THEN flush(states[discriminant])
                    ELSE flush(ReduceState_new(event, cfg.merge_strategies, t))),
      states |-> Remove(states, discriminant) ]

\* the ends_here branch that merges the event and leaves the bucket open
ends_branch_defer(states, outp, event, discriminant, t) ==
    [ output |-> outp,
      states |-> push_or_new_reduce_state(states, event, discriminant, t) ]

\* transform_one, the branch `else if ends_here`
ends_branch(states, outp, event, discriminant, t) ==
    [ output |-> Append(outp,
                    IF discriminant \in DOMAIN states
                    THEN flush(add_event(states[discriminant], event,
                                         cfg.merge_strategies, t))
                    ELSE flush(ReduceState_new(event, cfg.merge_strategies, t))),
      states |-> Remove(states, discriminant) ]

\* transform_one, the last branch
plain_branch(states, outp, event, discriminant, t) ==
    [ output |-> outp,
      states |-> push_or_new_reduce_state(states, event, discriminant, t) ]

\* transform_one that returns after the branch, without the sweep
transform_one_nosweep(states, outp, event, t) ==
    LET discriminant == discriminant_of(event)
    IN  { IF starts_here(event)
          THEN starts_branch(states, outp, event, discriminant, t)
          ELSE IF ends_here(event)
          THEN ends_branch(states, outp, event, discriminant, t)
          ELSE plain_branch(states, outp, event, discriminant, t) }

\* the outcomes of Reduce::transform_one
transform_one(states, outp, event, t) ==
    LET discriminant == discriminant_of(event)
        after ==
            IF starts_here(event)
            THEN starts_branch(states, outp, event, discriminant, t)
            ELSE IF ends_here(event)
            THEN ends_branch(states, outp, event, discriminant, t)
            ELSE plain_branch(states, outp, event, discriminant, t)
    IN  flush_into(after.states, after.output, t)

\* ---------------------------------------------------------------- actions
Start ==
    /\ pc = "new"
    /\ reduce_merge_states = [k \in {} |-> 0]
    /\ now = 0
    /\ output = <<>>
    /\ done = FALSE
    /\ branch = "none"
    /\ before = [k \in {} |-> 0]
    /\ batch = <<>>
    /\ out = <<>>
    /\ input = <<>>
    /\ ended = FALSE
    /\ completions = 0
    /\ lookup_pc = "off"
    /\ lookup_input = <<>>
    /\ lookup_pushed = 0
    /\ lookup = [ok |-> FALSE, path |-> <<>>]
    /\ rendered = <<>>
    /\ popped = <<>>
    /\ FieldsOff
    /\ StdinOff

Init ==
    /\ cfg \in RoutingConfigs
    /\ upstream = RoutingEvents
    /\ Start

InitMerge ==
    /\ cfg \in MergingConfigs
    /\ upstream = MergingEvents
    /\ Start

InitStrategies ==
    /\ cfg \in StrategiesConfigs
    /\ upstream = StrategiesEvents
    /\ Start

\* Reduce::new without the check of line 156
New_unchecked ==
    /\ pc = "new"
    /\ pc' = IF cfg.ends_when = "Invalid" \/ cfg.starts_when = "Invalid" THEN "failed"
             ELSE "select"
    /\ UNCHANGED <<other_vars, cfg, upstream, reduce_merge_states, now, output, done,
                   branch, before, batch, out, input, ended, completions>>

\* Reduce::new followed by Reduce::transform up to the first select!
New ==
    /\ pc = "new"
    /\ pc' = IF cfg.ends_when # "None" /\ cfg.starts_when # "None" THEN "failed"
             ELSE IF cfg.ends_when = "Invalid" \/ cfg.starts_when = "Invalid" THEN "failed"
             ELSE "select"
    /\ UNCHANGED <<other_vars, cfg, upstream, reduce_merge_states, now, output, done,
                   branch, before, batch, out, input, ended, completions>>

\* time passes while the task waits in select!; with no bucket open the
\* task cannot tell how much
Advance ==
    /\ pc = "select"
    /\ now < MaxTime
    /\ DOMAIN reduce_merge_states # {}
    /\ now' = now + 1
    /\ UNCHANGED <<other_vars, cfg, upstream, pc, reduce_merge_states, output, done,
                   branch, before, batch, out, input, ended, completions>>

\* the timer branch without flush_into
Tick_noflush ==
    /\ pc = "select"
    /\ output' = <<>>
    /\ batch' = <<>>
    /\ before' = reduce_merge_states
    /\ done' = FALSE
    /\ branch' = "tick"
    /\ pc' = "yield"
    /\ UNCHANGED <<other_vars, cfg, upstream, reduce_merge_states, now, out, input,
                   ended, completions>>

\* the branch `_ = flush_stream.next()`
Tick ==
    /\ pc = "select"
    /\ \E r \in flush_into(reduce_merge_states, <<>>, now) :
          /\ reduce_merge_states' = r.states
          /\ output' = r.output
          /\ batch' = r.output
    /\ before' = reduce_merge_states
    /\ done' = FALSE
    /\ branch' = "tick"
    /\ pc' = "yield"
    /\ UNCHANGED <<other_vars, cfg, upstream, now, out, input, ended, completions>>

\* the branch `maybe_event = input_stream.next()` with Some(Ok(event))
RecvEvent ==
    /\ pc = "select"
    /\ Len(input) < MaxEvents
    /\ \E f \in upstream :
          LET event == [id |-> Len(input) + 1, fields |-> f]
          IN  /\ input' = Append(input, event)
              /\ \E r \in transform_one(reduce_merge_states, <<>>, event, now) :
                    /\ reduce_merge_states' = r.states
                    /\ output' = r.output
                    /\ batch' = r.output
    /\ before' = reduce_merge_states
    /\ done' = FALSE
    /\ branch' = "event"
    /\ pc' = "yield"
    /\ UNCHANGED <<other_vars, cfg, upstream, now, out, ended, completions>>

\* the same branch with None: upstream has ended
RecvNone ==
    /\ pc = "select"
    /\ \E r \in flush_all_into(reduce_merge_states, <<>>) :
          /\ reduce_merge_states' = r.states
          /\ output' = r.output
          /\ batch' = r.output
    /\ before' = reduce_merge_states
    /\ ended' = TRUE
    /\ done' = TRUE
    /\ branch' = "end"
    /\ pc' = "yield"
    /\ UNCHANGED <<other_vars, cfg, upstream, now, out, input, completions>>

\* the branch with Some(Err(())) handled as the end of upstream
RecvErr_flush ==
    /\ pc = "select"
    /\ \E r \in flush_all_into(reduce_merge_states, <<>>) :
          /\ reduce_merge_states' = r.states
          /\ output' = r.output
          /\ batch' = r.output
    /\ before' = reduce_merge_states
    /\ done' = TRUE
    /\ branch' = "error"
    /\ pc' = "yield"
    /\ UNCHANGED <<other_vars, cfg, upstream, now, out, input, ended, completions>>

\* the same branch with Some(Err(())): the task panics
RecvErr ==
    /\ pc = "select"
    /\ pc' = "panicked"
    /\ branch' = "error"
    /\ UNCHANGED <<before, batch>>
    /\ UNCHANGED <<other_vars, cfg, upstream, reduce_merge_states, now, output, done,
                   out, input, ended, completions>>

\* `yield stream::iter(output)` hands one event of the batch downstream
Yield ==
    /\ pc = "yield"
    /\ output # <<>>
    /\ out' = Append(out, Head(output))
    /\ output' = Tail(output)
    /\ UNCHANGED <<other_vars, cfg, upstream, pc, reduce_merge_states, now, done,
                   branch, before, batch, input, ended, completions>>

\* the loop without `if done { break }`
Continue_nobreak ==
    /\ pc = "yield"
    /\ output = <<>>
    /\ pc' = "select"
    /\ branch' = "none"
    /\ before' = [k \in {} |-> 0]
    /\ batch' = <<>>
    /\ UNCHANGED <<other_vars, cfg, upstream, reduce_merge_states, now, output, done,
                   out, input, ended, completions>>

\* a loop that goes on while events of the batch are still to be yielded
Continue_early ==
    /\ pc = "yield"
    /\ pc' = IF done THEN "done" ELSE "select"
    /\ completions' = IF done THEN completions + 1 ELSE completions
    /\ IF done
       THEN UNCHANGED <<branch, before, batch>>
       ELSE /\ branch' = "none"
            /\ before' = [k \in {} |-> 0]
            /\ batch' = <<>>
    /\ UNCHANGED <<other_vars, cfg, upstream, reduce_merge_states, now, output, done,
                   out, input, ended>>

\* the batch is exhausted: `if done { break }`, else the next iteration
Continue ==
    /\ pc = "yield"
    /\ output = <<>>
    /\ pc' = IF done THEN "done" ELSE "select"
    /\ completions' = IF done THEN completions + 1 ELSE completions
    /\ IF done
       THEN UNCHANGED <<branch, before, batch>>
       ELSE /\ branch' = "none"
            /\ before' = [k \in {} |-> 0]
            /\ batch' = <<>>
    /\ UNCHANGED <<other_vars, cfg, upstream, reduce_merge_states, now, output, done,
                   out, input, ended>>

Next ==
    \/ New
    \/ Advance
    \/ Tick
    \/ RecvEvent
    \/ RecvNone
    \/ RecvErr
    \/ Yield
    \/ Continue

Spec == Init /\ [][Next]_vars

SpecMerge == InitMerge /\ [][Next]_vars

SpecStrategies == InitStrategies /\ [][Next]_vars

\* the configuration of test::arrays for the field
ArraysConfigs ==
    [ ends_when : {"Some"}, starts_when : {"None"},
      expire_after : {MaxExpire},
      group_by : { <<from_str(RequestId).path>> },
      merge_strategies : { from_str(Foo).path :> "concat" } ]

InitArrays ==
    /\ cfg \in ArraysConfigs
    /\ upstream = ArraysEvents
    /\ Start

SpecArrays == InitArrays /\ [][Next]_vars

\* ------------------------------------------------- the loop left to run on
\* the configurations of the loop that runs for ever: no boundary condition,
\* buckets that expire at once or after MaxExpire
SelectConfigs ==
    [ ends_when : {"None"}, starts_when : {"None"},
      expire_after : {0, MaxExpire},
      group_by : { <<from_str(RequestId).path>> },
      merge_strategies : { NoStrategies } ]

\* upstream events of two groups
TwoGroups ==
    { (RequestId :> Bytes(rid)) @@ (Counter :> Integer(1)) : rid \in {"1", "2"} }

InitSelect ==
    /\ cfg \in SelectConfigs
    /\ upstream = TwoGroups
    /\ Start

\* the record of what upstream delivered and downstream received is dropped
\* once it is full and no bucket refers to it: the loop keeps nothing of an
\* iteration but the buckets
Forget ==
    /\ pc = "select"
    /\ DOMAIN reduce_merge_states = {}
    /\ Len(input) = MaxEvents
    /\ input' = <<>>
    /\ out' = <<>>
    /\ UNCHANGED <<other_vars, cfg, upstream, pc, reduce_merge_states, now, output, done,
                   branch, before, batch, ended, completions>>

NextSelect ==
    \/ New
    \/ Advance
    \/ Tick
    \/ RecvEvent
    \/ RecvNone
    \/ RecvErr
    \/ Yield
    \/ Continue
    \/ Forget

\* the stream is polled until it ends: a batch is handed on event by event
\* and the loop goes back to select!
stream_is_polled == WF_vars(New) /\ WF_vars(Yield) /\ WF_vars(Continue)

\* tokio::select! with `biased;`: the branches are polled in the order they
\* are written in, the timer first
select_biased == SF_vars(Tick)

\* tokio::select!: the branch polled first is picked at random, so a
\* branch that is ready again and again is taken in the end
select_fair == SF_vars(Tick) /\ SF_vars(RecvEvent \/ RecvNone \/ RecvErr)

SpecSelect == InitSelect /\ [][NextSelect]_vars /\ stream_is_polled /\ select_fair

\* the configurations of the loop left to its timer: no boundary condition,
\* buckets that expire after one unit of time or after MaxExpire
SweepConfigs ==
    [ ends_when : {"None"}, starts_when : {"None"},
      expire_after : {1, MaxExpire},
      group_by : { <<from_str(RequestId).path>> },
      merge_strategies : { NoStrategies } ]

InitSweep ==
    /\ cfg \in SweepConfigs
    /\ upstream = TwoGroups
    /\ Start

\* tokio::time::interval: while the task waits time passes, up to MaxTime,
\* and the timer fires again and again; its tick is handled in the end
timer_fires == SF_vars(Advance) /\ SF_vars(Tick)

\* upstream may stay silent for ever: nothing is assumed of its branch
SpecSweep == InitSweep /\ [][Next]_vars /\ stream_is_polled /\ timer_fires

\* ---------------------------------------------------------------- lookups
\* the characters a path expression is typed from
Chars == {"a", ".", "[", "]", "0", "\""}

\* the digits of the indices appended: 0, 1, and 1 with a leading zero
IndexTexts == { <<"0">>, <<"1">>, <<"0", "1">> }

\* no path expression has been typed and no transform is built
InitLookup ==
    /\ cfg = [ ends_when |-> "None", starts_when |-> "None", expire_after |-> 0,
               group_by |-> <<>>, merge_strategies |-> NoStrategies ]
    /\ upstream = {}
    /\ pc = "off"
    /\ reduce_merge_states = [k \in {} |-> 0]
    /\ now = 0
    /\ output = <<>>
    /\ done = FALSE
    /\ branch = "none"
    /\ before = [k \in {} |-> 0]
    /\ batch = <<>>
    /\ out = <<>>
    /\ input = <<>>
    /\ ended = FALSE
    /\ completions = 0
    /\ lookup_pc = "typing"
    /\ lookup_input = <<>>
    /\ lookup_pushed = 0
    /\ lookup = [ok |-> FALSE, path |-> <<>>]
    /\ rendered = <<>>
    /\ popped = <<>>
    /\ FieldsOff
    /\ StdinOff

\* one more character of the input of the tests
TypeChar ==
    /\ lookup_pc = "typing"
    /\ lookup_pushed = 0
    /\ Len(lookup_input) < MaxLen
    /\ \E c \in Chars : lookup_input' = Append(lookup_input, c)
    /\ UNCHANGED <<reduce_vars, fields_vars, stdin_vars, popped, lookup_pc, lookup_pushed, lookup, rendered>>

\* one more bracketed index at the end of the input, as in `lookup[0]`
\* and `nested_lookup[0][0]`
TypeIndex ==
    /\ lookup_pc = "typing"
    /\ lookup_pushed < MaxIndices
    /\ \E digits \in IndexTexts :
          lookup_input' = lookup_input \o <<"[">> \o digits \o <<"]">>
    /\ lookup_pushed' = lookup_pushed + 1
    /\ UNCHANGED <<reduce_vars, fields_vars, stdin_vars, popped, lookup_pc, lookup, rendered>>

\* Lookup::from_str(input)
FromStr ==
    /\ lookup_pc = "typing"
    /\ lookup' = from_str(lookup_input)
    /\ lookup_pc' = "parsed"
    /\ UNCHANGED <<reduce_vars, fields_vars, stdin_vars, popped, lookup_input, lookup_pushed, rendered>>

\* Lookup::from(input)
FromRaw ==
    /\ lookup_pc = "typing"
    /\ lookup' = [ok |-> TRUE, path |-> from_raw(lookup_input)]
    /\ lookup_pc' = "raw"
    /\ UNCHANGED <<reduce_vars, fields_vars, stdin_vars, popped, lookup_input,
                   lookup_pushed, rendered>>

\* lookup.to_string() of a lookup that from_str or from returned
Render ==
    /\ lookup_pc \in {"parsed", "raw"}
    /\ lookup.ok
    /\ rendered' = to_string(lookup.path)
    /\ lookup_pc' = IF lookup_pc = "parsed" THEN "rendered" ELSE "rendered_raw"
    /\ UNCHANGED <<reduce_vars, fields_vars, stdin_vars, popped, lookup_input, lookup_pushed, lookup>>

NextLookup ==
    \/ TypeChar
    \/ TypeIndex
    \/ FromStr
    \/ FromRaw
    \/ Render

SpecLookup == InitLookup /\ [][NextLookup]_vars

\* the inputs of the tests on push and pop: a key, two keys, a key and an
\* index, and the key with a period that goes in via from
PathInputs == { <<"a">>, <<"a", ".", "a">>, <<"a", "[", "0", "]">>, <<"\"", "a", "\"">> }

\* the segments pushed and the paths appended
PushedSegments == { FieldSeg(<<"a">>), IndexSeg(0) }
ExtendPaths == { <<FieldSeg(<<"a">>), IndexSeg(1)>>, from_raw(<<"a", ".", "a">>) }

\* one of the inputs is about to be given to a constructor
InitPath ==
    /\ cfg = [ ends_when |-> "None", starts_when |-> "None", expire_after |-> 0,
               group_by |-> <<>>, merge_strategies |-> NoStrategies ]
    /\ upstream = {}
    /\ pc = "off"
    /\ reduce_merge_states = [k \in {} |-> 0]
    /\ now = 0
    /\ output = <<>>
    /\ done = FALSE
    /\ branch = "none"
    /\ before = [k \in {} |-> 0]
    /\ batch = <<>>
    /\ out = <<>>
    /\ input = <<>>
    /\ ended = FALSE
    /\ completions = 0
    /\ lookup_pc = "typing"
    /\ lookup_input \in PathInputs
    /\ lookup_pushed = 0
    /\ lookup = [ok |-> FALSE, path |-> <<>>]
    /\ rendered = <<>>
    /\ popped = <<>>
    /\ FieldsOff
    /\ StdinOff

\* a path a constructor has returned, as it is or after push, pop, extend
Constructed == lookup_pc \in {"parsed", "raw", "edited"} /\ lookup.ok

\* lookup.push(segment)
Push ==
    /\ Constructed
    /\ Len(lookup.path) < MaxSegments
    /\ \E segment \in PushedSegments :
          lookup' = [lookup EXCEPT !.path = push(lookup.path, segment)]
    /\ lookup_pc' = "edited"
    /\ UNCHANGED <<reduce_vars, fields_vars, stdin_vars, popped, lookup_input,
                   lookup_pushed, rendered>>

\* lookup.pop()
Pop ==
    /\ Constructed
    /\ lookup' = [lookup EXCEPT !.path = pop(lookup.path).path]
    /\ popped' = pop(lookup.path).out
    /\ lookup_pc' = "edited"
    /\ UNCHANGED <<reduce_vars, fields_vars, stdin_vars, lookup_input,
                   lookup_pushed, rendered>>

\* lookup.extend(other)
Extend ==
    /\ Constructed
    /\ \E other \in ExtendPaths :
          /\ Len(lookup.path) + Len(other) <= MaxSegments
          /\ lookup' = [lookup EXCEPT !.path = extend(lookup.path, other)]
    /\ lookup_pc' = "edited"
    /\ UNCHANGED <<reduce_vars, fields_vars, stdin_vars, popped, lookup_input,
                   lookup_pushed, rendered>>

NextPath ==
    \/ FromStr
    \/ FromRaw
    \/ Push
    \/ Pop
    \/ Extend

SpecPath == InitPath /\ [][NextPath]_vars

\* ---------------------------------------------------------------- all_fields
\* the order of the characters of the keys
Alphabet == <<"a", "b">>

CharRank(ch) == CHOOSE n \in DOMAIN Alphabet : Alphabet[n] = ch

\* impl Ord for String: the order a BTreeMap keeps its keys in
RECURSIVE str_lt(_, _)
str_lt(x, y) ==
    IF y = <<>> THEN FALSE
    ELSE IF x = <<>> THEN TRUE
    ELSE IF Head(x) # Head(y) THEN CharRank(Head(x)) < CharRank(Head(y))
    ELSE str_lt(Tail(x), Tail(y))

\* the keys of the maps: `a`, `ab` and `b` sort in this order
Keys == { <<"a">>, <<"a", "b">>, <<"b">> }

\* the scalars at the leaves
Scalars == { Integer(4), Null }

\* the values, the maps over `keys` and the arrays made of exactly n values,
\* a map or an array counting for one more than what it holds
RECURSIVE ValuesOfSize(_)
RECURSIVE MapsOfSize(_, _)
RECURSIVE ArraysOfSize(_)
ValuesOfSize(n) ==
    IF n < 1 THEN {}
    ELSE (IF n = 1 THEN Scalars ELSE {})
         \cup { Map(m) : m \in MapsOfSize(n - 1, Keys) }
         \cup { Array(a) : a \in ArraysOfSize(n - 1) }
MapsOfSize(n, keys) ==
    IF keys = {} THEN (IF n = 0 THEN { [k \in {} |-> Null] } ELSE {})
    ELSE LET k == CHOOSE x \in keys : TRUE
         IN  MapsOfSize(n, keys \ {k}) \cup
             UNION { { Put(m, k, v) : m \in MapsOfSize(n - size, keys \ {k}),
                                      v \in ValuesOfSize(size) } :
                       size \in 1..n }
ArraysOfSize(n) ==
    IF n = 0 THEN { <<>> }
    ELSE UNION { { <<v>> \o rest : rest \in ArraysOfSize(n - size),
                                   v \in ValuesOfSize(size) } :
                   size \in 1..n }

\* the keys, one after the other
KeyOrder == << <<"a">>, <<"a", "b">>, <<"b">> >>

\* what a key of the map given to all_fields may hold when `size` values
\* are spent on it: nothing, or one value made of that many
EntriesOfSize(size) ==
    IF size = 0 THEN { <<>> } ELSE { <<v>> : v \in ValuesOfSize(size) }

\* the map that holds under every key the entry chosen for it
MapOfEntries(entries) ==
    [ k \in { KeyOrder[n] : n \in { x \in DOMAIN KeyOrder : entries[x] # <<>> } } |->
        entries[CHOOSE n \in DOMAIN KeyOrder : KeyOrder[n] = k][1] ]

\* PathComponent::Key and PathComponent::Index
Key(key) == [kind |-> "Key", key |-> key, index |-> 0]
Index(n) == [kind |-> "Index", key |-> <<>>, index |-> n]

\* LeafIter::Map(map.iter()): `rest` holds the keys not yet visited
MapIter(entries) == [kind |-> "Map", node |-> entries, rest |-> DOMAIN entries]

\* LeafIter::Array(array.iter().enumerate()): `pos` is the next index
ArrayIter(elems) == [kind |-> "Array", node |-> elems, pos |-> 0]

\* FieldsIter::new
FieldsIter_new(fields) == [stack |-> <<MapIter(fields)>>, path |-> <<>>]

\* FieldsIter::push that takes only a map for a composite
iter_push_maps(it, value, component) ==
    IF value.t = "Map"
    THEN [ it |-> [stack |-> Append(it.stack, MapIter(value.m)),
                   path |-> Append(it.path, component)],
           scalar |-> <<>> ]
    ELSE [ it |-> it, scalar |-> <<value>> ]

\* FieldsIter::push that returns a map or an array that holds nothing
iter_push_empties(it, value, component) ==
    IF value.t = "Map" /\ DOMAIN value.m # {}
    THEN [ it |-> [stack |-> Append(it.stack, MapIter(value.m)),
                   path |-> Append(it.path, component)],
           scalar |-> <<>> ]
    ELSE IF value.t = "Array" /\ value.a # <<>>
    THEN [ it |-> [stack |-> Append(it.stack, ArrayIter(value.a)),
                   path |-> Append(it.path, component)],
           scalar |-> <<>> ]
    ELSE [ it |-> it, scalar |-> <<value>> ]

\* FieldsIter::push: a composite gets a frame and a path component and
\* None is returned, a scalar is returned
iter_push(it, value, component) ==
    IF value.t = "Map"
    THEN [ it |-> [stack |-> Append(it.stack, MapIter(value.m)),
                   path |-> Append(it.path, component)],
           scalar |-> <<>> ]
    ELSE IF value.t = "Array"
    THEN [ it |-> [stack |-> Append(it.stack, ArrayIter(value.a)),
                   path |-> Append(it.path, component)],
           scalar |-> <<>> ]
    ELSE [ it |-> it, scalar |-> <<value>> ]

\* Vec::pop
PopBack(seq) == IF seq = <<>> THEN seq ELSE SubSeq(seq, 1, Len(seq) - 1)

\* pop that leaves the path as it is
iter_pop_stack(it) == [stack |-> PopBack(it.stack), path |-> it.path]

\* FieldsIter::pop
iter_pop(it) == [stack |-> PopBack(it.stack), path |-> PopBack(it.path)]

\* the text of one component as make_path writes it
component_text(component) ==
    IF component.kind = "Key" THEN component.key
    ELSE <<"[">> \o FromNat(component.index) \o <<"]">>

\* the loop of make_path from the n-th component on
RECURSIVE make_path_loop(_, _, _)
make_path_loop(components, n, written) ==
    IF n > Len(components) THEN written
    ELSE LET text == written \o component_text(components[n])
         IN  IF n < Len(components) /\ components[n + 1].kind = "Key"
             THEN make_path_loop(components, n + 1, Append(text, "."))
             ELSE make_path_loop(components, n + 1, text)

\* make_path that writes the period whatever the next component is
RECURSIVE make_path_dotted(_, _)
make_path_dotted(path, component) ==
    IF path = <<>> THEN component_text(component)
    ELSE make_path_dotted(PopBack(path), path[Len(path)])
            \o <<".">> \o component_text(component)

\* FieldsIter::make_path
make_path(path, component) == make_path_loop(Append(path, component), 1, <<>>)

\* btree_map::Iter::next that visits the keys from the last to the first
map_iter_next_back(rest) == CHOOSE k \in rest : \A x \in rest \ {k} : str_lt(x, k)

\* btree_map::Iter::next: the smallest key not yet visited
map_iter_next(rest) == CHOOSE k \in rest : \A x \in rest \ {k} : str_lt(k, x)

\* the item for a scalar, or nothing for a composite that was pushed;
\* `components` records the components the path string was made of
item_of(pushed, component) ==
    IF pushed.scalar = <<>> THEN <<>>
    ELSE << [ path |-> make_path(pushed.it.path, component),
              value |-> pushed.scalar[1],
              components |-> Append(pushed.it.path, component) ] >>

\* FieldsIter::next: the loop runs until a scalar is reached or the stack
\* is empty
RECURSIVE iter_next(_)
iter_next(it) ==
    IF it.stack = <<>> THEN [it |-> it, item |-> <<>>]
    ELSE LET top == it.stack[Len(it.stack)]
         IN  IF top.kind = "Map"
             THEN IF top.rest = {} THEN iter_next(iter_pop(it))
                  ELSE LET key == map_iter_next(top.rest)
                           advanced == [it EXCEPT !.stack[Len(it.stack)].rest = top.rest \ {key}]
                           pushed == iter_push(advanced, top.node[key], Key(key))
                       IN  IF pushed.scalar # <<>>
                           THEN [it |-> pushed.it,
                                 item |-> item_of(pushed, Key(key))]
                           ELSE iter_next(pushed.it)
             ELSE IF top.pos >= Len(top.node) THEN iter_next(iter_pop(it))
                  ELSE LET advanced == [it EXCEPT !.stack[Len(it.stack)].pos = top.pos + 1]
                           pushed == iter_push(advanced, top.node[top.pos + 1], Index(top.pos))
                       IN  IF pushed.scalar # <<>>
                           THEN [it |-> pushed.it,
                                 item |-> item_of(pushed, Index(top.pos))]
                           ELSE iter_next(pushed.it)

\* a map of at most MaxNodes values is about to be given to all_fields
InitFields ==
    /\ cfg = [ ends_when |-> "None", starts_when |-> "None", expire_after |-> 0,
               group_by |-> <<>>, merge_strategies |-> NoStrategies ]
    /\ upstream = {}
    /\ pc = "off"
    /\ reduce_merge_states = [k \in {} |-> 0]
    /\ now = 0
    /\ output = <<>>
    /\ done = FALSE
    /\ branch = "none"
    /\ before = [k \in {} |-> 0]
    /\ batch = <<>>
    /\ out = <<>>
    /\ input = <<>>
    /\ ended = FALSE
    /\ completions = 0
    /\ lookup_pc = "off"
    /\ lookup_input = <<>>
    /\ lookup_pushed = 0
    /\ lookup = [ok |-> FALSE, path |-> <<>>]
    /\ rendered = <<>>
    /\ popped = <<>>
    /\ StdinOff
    /\ fields_pc = "new"
    /\ \E sizes \in [DOMAIN KeyOrder -> 0..MaxNodes] :
          /\ sizes[1] + sizes[2] + sizes[3] <= MaxNodes
          /\ \E entries \in EntriesOfSize(sizes[1]) \X EntriesOfSize(sizes[2])
                               \X EntriesOfSize(sizes[3]) :
                tree = MapOfEntries(entries)
    /\ iter_stack = <<>>
    /\ iter_path = <<>>
    /\ yielded = <<>>

\* all_fields(&fields)
AllFields ==
    /\ fields_pc = "new"
    /\ iter_stack' = FieldsIter_new(tree).stack
    /\ iter_path' = FieldsIter_new(tree).path
    /\ fields_pc' = "iterating"
    /\ UNCHANGED <<reduce_vars, lookup_vars, stdin_vars, tree, yielded>>

\* one call of next() on the iterator: an item, or None at the end; the
\* iterator may be called again after it has returned None
FieldsNext ==
    /\ fields_pc \in {"iterating", "done", "exhausted"}
    /\ LET r == iter_next([stack |-> iter_stack, path |-> iter_path])
       IN  /\ iter_stack' = r.it.stack
           /\ iter_path' = r.it.path
           /\ yielded' = yielded \o r.item
           /\ fields_pc' = IF r.item # <<>> THEN "iterating"
                           ELSE IF fields_pc = "iterating" THEN "done"
                           ELSE "exhausted"
    /\ UNCHANGED <<reduce_vars, lookup_vars, stdin_vars, tree>>

NextFields ==
    \/ AllFields
    \/ FieldsNext

SpecFields == InitFields /\ [][NextFields]_vars

\* ---------------------------------------------------------------- stdin
\* channel(1024)
ChannelCapacity == 1024

\* what stdin.lines() may yield: the two lines of the test, a read error
LineItems ==
    { [ok |-> TRUE, text |-> "hello world"],
      [ok |-> TRUE, text |-> "hello world again"],
      [ok |-> FALSE, text |-> ""] }

\* create_event: the line is the message, the source type is "stdin"
create_event(line) == [message |-> Bytes(line), source_type |-> Bytes("stdin")]

\* stdin_source has spawned the thread and returned the task, which runs
InitStdin ==
    /\ cfg = [ ends_when |-> "None", starts_when |-> "None", expire_after |-> 0,
               group_by |-> <<>>, merge_strategies |-> NoStrategies ]
    /\ upstream = {}
    /\ pc = "off"
    /\ reduce_merge_states = [k \in {} |-> 0]
    /\ now = 0
    /\ output = <<>>
    /\ done = FALSE
    /\ branch = "none"
    /\ before = [k \in {} |-> 0]
    /\ batch = <<>>
    /\ out = <<>>
    /\ input = <<>>
    /\ ended = FALSE
    /\ completions = 0
    /\ lookup_pc = "off"
    /\ lookup_input = <<>>
    /\ lookup_pushed = 0
    /\ lookup = [ok |-> FALSE, path |-> <<>>]
    /\ rendered = <<>>
    /\ popped = <<>>
    /\ FieldsOff
    /\ stdin_input \in UNION { [1..n -> LineItems] : n \in 0..MaxLines }
    /\ lines = stdin_input
    /\ stdin_pc = "forwarding"
    /\ thread_pc = "reading"
    /\ channel = <<>>
    /\ shutdown = FALSE
    /\ rx_open = TRUE
    /\ pipeline = <<>>
    /\ pipeline_closed = FALSE
    /\ res = "none"

\* the thread: `sender.send(line)` of the next item succeeds
ThreadSend ==
    /\ thread_pc = "reading"
    /\ lines # <<>>
    /\ stdin_pc = "forwarding"
    /\ Len(channel) < ChannelCapacity
    /\ channel' = Append(channel, Head(lines))
    /\ lines' = Tail(lines)
    /\ UNCHANGED <<reduce_vars, lookup_vars, fields_vars, stdin_input, stdin_pc,
                   thread_pc, shutdown, rx_open, pipeline, pipeline_closed, res>>

\* the thread: the send fails because the receiver is gone, the thread returns
ThreadSendFails ==
    /\ thread_pc = "reading"
    /\ lines # <<>>
    /\ stdin_pc = "finished"
    /\ lines' = Tail(lines)
    /\ thread_pc' = "returned"
    /\ UNCHANGED <<reduce_vars, lookup_vars, fields_vars, stdin_input, stdin_pc,
                   channel, shutdown, rx_open, pipeline, pipeline_closed, res>>

\* the thread: lines() has ended, the thread returns and drops the sender
ThreadEof ==
    /\ thread_pc = "reading"
    /\ lines = <<>>
    /\ thread_pc' = "returned"
    /\ UNCHANGED <<reduce_vars, lookup_vars, fields_vars, stdin_input, stdin_pc,
                   lines, channel, shutdown, rx_open, pipeline, pipeline_closed, res>>

\* the task: forward takes the next item of the stream; a line becomes an
\* event the pipeline accepts, a read error or a pipeline without
\* receiver ends the task with Err
TaskForward ==
    /\ stdin_pc = "forwarding"
    /\ ~shutdown
    /\ channel # <<>>
    /\ channel' = Tail(channel)
    /\ IF Head(channel).ok /\ rx_open
       THEN /\ pipeline' = Append(pipeline, create_event(Head(channel).text))
            /\ UNCHANGED <<stdin_pc, pipeline_closed, res>>
       ELSE /\ stdin_pc' = "finished"
            /\ pipeline_closed' = TRUE
            /\ res' = "Err"
            /\ UNCHANGED pipeline
    /\ UNCHANGED <<reduce_vars, lookup_vars, fields_vars, stdin_input, thread_pc,
                   lines, shutdown, rx_open>>

\* the task ends as soon as nothing is waiting in the channel
TaskEnd_early ==
    /\ stdin_pc = "forwarding"
    /\ shutdown \/ channel = <<>>
    /\ stdin_pc' = "finished"
    /\ pipeline_closed' = TRUE
    /\ res' \in (IF rx_open THEN {"Ok"} ELSE {"Ok", "Err"})
    /\ UNCHANGED <<reduce_vars, lookup_vars, fields_vars, stdin_input, thread_pc,
                   lines, channel, shutdown, rx_open, pipeline>>

\* the task: the stream has ended, by the shutdown signal or because the
\* thread has returned and the channel is empty; forward closes the sink
\* and returns Ok, or what closing a pipeline without receiver returns;
\* the task finishes and drops the pipeline
TaskEnd ==
    /\ stdin_pc = "forwarding"
    /\ shutdown \/ (channel = <<>> /\ thread_pc = "returned")
    /\ stdin_pc' = "finished"
    /\ pipeline_closed' = TRUE
    /\ res' \in (IF rx_open THEN {"Ok"} ELSE {"Ok", "Err"})
    /\ UNCHANGED <<reduce_vars, lookup_vars, fields_vars, stdin_input, thread_pc,
                   lines, channel, shutdown, rx_open, pipeline>>

\* the shutdown signal fires
Shutdown ==
    /\ stdin_pc = "forwarding"
    /\ ~shutdown
    /\ shutdown' = TRUE
    /\ UNCHANGED <<reduce_vars, lookup_vars, fields_vars, stdin_input, stdin_pc,
                   thread_pc, lines, channel, rx_open, pipeline, pipeline_closed, res>>

\* downstream drops the receiver of the pipeline
DropReceiver ==
    /\ stdin_pc = "forwarding"
    /\ rx_open
    /\ rx_open' = FALSE
    /\ UNCHANGED <<reduce_vars, lookup_vars, fields_vars, stdin_input, stdin_pc,
                   thread_pc, lines, channel, shutdown, pipeline, pipeline_closed, res>>

NextStdin ==
    \/ ThreadSend
    \/ ThreadSendFails
    \/ ThreadEof
    \/ TaskForward
    \/ TaskEnd
    \/ Shutdown
    \/ DropReceiver

SpecStdin == InitStdin /\ [][NextStdin]_vars

\* ---------------------------------------------------------------- claims
\* the event read by the iteration that has just run
Cur(inp) == inp[Len(inp)]

\* the discriminant of the upstream event with the given id
DiscOf(inp, id) == from_log_event(inp[id].fields, cfg.group_by)

\* the positions of batch outp whose output holds an event of group d
OutputsFor(outp, inp, d) ==
    { n \in DOMAIN outp :
        \E m \in DOMAIN outp[n].ids : DiscOf(inp, outp[n].ids[m]) = d }

\* the events merged into the open bucket of d, none when it is not open
EventsOf(states, d) == IF d \in DOMAIN states THEN states[d].events ELSE <<>>

\* C1: when ends_when matches an incoming event with discriminant D, the
\* event is merged into the open bucket of D (or opens one), exactly one
\* output for D is emitted, made of the bucket's events followed by the
\* triggering event and carrying every field of it, and no bucket for D is
\* left in the map.
EndsWhenMergesThenFlushes ==
    (branch = "event" /\ ends_here(Cur(input))) =>
        LET e == Cur(input)
            d == DiscOf(input, e.id)
            forD == OutputsFor(batch, input, d)
        IN  /\ d \notin DOMAIN reduce_merge_states
            /\ Cardinality(forD) = 1
            /\ \A n \in forD :
                  /\ batch[n].ids = EventsOf(before, d) \o <<e.id>>
                  /\ \A k \in DOMAIN e.fields : from_raw(k) \in DOMAIN batch[n].fields

EndsWhenWitness ==
    /\ branch = "event"
    /\ ends_here(Cur(input))
    /\ DiscOf(input, Len(input)) \in DOMAIN before
    /\ \E n \in DOMAIN batch :
          /\ Len(batch[n].ids) >= 2
          /\ batch[n].ids[Len(batch[n].ids)] = Len(input)

\* C2 as stated: when starts_when matches, an open bucket of D is emitted
\* without the triggering event (nothing is emitted for D when none was
\* open), and afterwards a bucket for D exists seeded only by that event.
StartsWhenLeavesNewBucket ==
    (branch = "event" /\ starts_here(Cur(input))) =>
        LET e == Cur(input)
            d == DiscOf(input, e.id)
            old == EventsOf(before, d)
            forD == OutputsFor(batch, input, d)
        IN  /\ d \in DOMAIN reduce_merge_states
            /\ reduce_merge_states[d].events = <<e.id>>
            /\ \A n \in forD : batch[n].ids = old
            /\ Cardinality(forD) = IF old = <<>> THEN 0 ELSE 1

\* C2 amended: the open bucket of D is emitted without the triggering
\* event; the bucket seeded only by the triggering event is open
\* afterwards unless the sweep that ends transform_one finds it stale
\* (expire_after = 0), and then it is emitted in the same batch, after the
\* old bucket's output, and no bucket for D remains.
StartsWhenFlushesThenSeeds ==
    (branch = "event" /\ starts_here(Cur(input))) =>
        LET e == Cur(input)
            d == DiscOf(input, e.id)
            old == EventsOf(before, d)
            forD == OutputsFor(batch, input, d)
            olds == { n \in forD : batch[n].ids = old }
            seeded == { n \in forD : batch[n].ids = <<e.id>> }
        IN  /\ forD = olds \cup seeded
            /\ Cardinality(olds) = IF old = <<>> THEN 0 ELSE 1
            /\ IF d \in DOMAIN reduce_merge_states
               THEN /\ reduce_merge_states[d].events = <<e.id>>
                    /\ seeded = {}
               ELSE /\ cfg.expire_after = 0
                    /\ Cardinality(seeded) = 1
                    /\ \A a \in olds, b \in seeded : a < b

StartsWhenWitness ==
    /\ branch = "event"
    /\ starts_here(Cur(input))
    /\ LET d == DiscOf(input, Len(input))
       IN  /\ d \in DOMAIN before
           /\ d \in DOMAIN reduce_merge_states
           /\ reduce_merge_states[d].events = <<Len(input)>>
           /\ \E n \in DOMAIN batch : batch[n].ids = before[d].events

\* C3 as stated: an event that matches no boundary opens the bucket of D
\* or is merged into it, nothing is emitted for D, and the bucket of D
\* stays open.
PlainEventKeepsBucketOpen ==
    (branch = "event" /\ ~starts_here(Cur(input)) /\ ~ends_here(Cur(input))) =>
        LET e == Cur(input)
            d == DiscOf(input, e.id)
        IN  /\ d \in DOMAIN reduce_merge_states
            /\ reduce_merge_states[d].events = EventsOf(before, d) \o <<e.id>>
            /\ OutputsFor(batch, input, d) = {}

\* C3 amended: the event opens the bucket of D or is merged into it and
\* the bucket's last-touched time is reset; nothing is emitted for D and
\* the bucket stays open unless the sweep that ends transform_one finds
\* it stale (expire_after = 0), and then the bucket, holding the event, is
\* the one output emitted for D and no bucket for D remains.
PlainEventOpensOrMerges ==
    (branch = "event" /\ ~starts_here(Cur(input)) /\ ~ends_here(Cur(input))) =>
        LET e == Cur(input)
            d == DiscOf(input, e.id)
            old == EventsOf(before, d)
            forD == OutputsFor(batch, input, d)
        IN  IF d \in DOMAIN reduce_merge_states
            THEN /\ reduce_merge_states[d].events = old \o <<e.id>>
                 /\ reduce_merge_states[d].stale_since = now
                 /\ forD = {}
            ELSE /\ cfg.expire_after = 0
                 /\ Cardinality(forD) = 1
                 /\ \A n \in forD : batch[n].ids = old \o <<e.id>>

PlainEventWitness ==
    /\ branch = "event"
    /\ ~starts_here(Cur(input)) /\ ~ends_here(Cur(input))
    /\ LET d == DiscOf(input, Len(input))
       IN  /\ d \in DOMAIN before
           /\ d \in DOMAIN reduce_merge_states
           /\ reduce_merge_states[d].events = before[d].events \o <<Len(input)>>

\* the buckets of `states` the sweep at time t finds stale
StaleAt(states, t) ==
    { k \in DOMAIN states : t - states[k].stale_since >= cfg.expire_after }

\* C4: on a timer tick the buckets emitted and removed are exactly those
\* whose time since the last update is at least expire_after; every other
\* bucket stays open with its mergers and last-touched time unchanged,
\* with or without a boundary condition configured.
TickFlushesExactlyStale ==
    branch = "tick" =>
        /\ DOMAIN reduce_merge_states = DOMAIN before \ StaleAt(before, now)
        /\ \A k \in DOMAIN reduce_merge_states : reduce_merge_states[k] = before[k]
        /\ Len(batch) = Cardinality(StaleAt(before, now))
        /\ \A k \in StaleAt(before, now) :
              \E n \in DOMAIN batch : batch[n].ids = before[k].events

TickWitness ==
    /\ branch = "tick"
    /\ cfg.ends_when = "Some"
    /\ reduce_merge_states # [k \in {} |-> 0]
    /\ \E k \in DOMAIN before :
          /\ cfg.expire_after > 0
          /\ now - before[k].stale_since = cfg.expire_after
          /\ k \notin DOMAIN reduce_merge_states

\* C5: when upstream ends, every bucket open at that moment, stale or not,
\* is emitted exactly once, in the batch and so downstream, and the bucket
\* map is empty afterwards.
EndFlushesEveryBucketOnce ==
    branch = "end" =>
        /\ DOMAIN reduce_merge_states = {}
        /\ Len(batch) = Cardinality(DOMAIN before)
        /\ \A k \in DOMAIN before :
              /\ Cardinality({ n \in DOMAIN batch : batch[n].ids = before[k].events }) = 1
              /\ pc = "done" =>
                    Cardinality({ n \in DOMAIN out : out[n].ids = before[k].events }) = 1

EndWitness ==
    /\ branch = "end"
    /\ pc = "done"
    /\ Cardinality(DOMAIN before) >= 2
    /\ \E k \in DOMAIN before : now - before[k].stale_since < cfg.expire_after

\* C6: the output stream ends exactly once, only after upstream has ended
\* and the whole batch of the final drain has gone downstream; once the
\* end of upstream has been seen the loop handles no further tick or item,
\* emits nothing but that batch, and can always go on to the end.
CompletesOnceAfterDrain ==
    /\ completions <= 1
    /\ completions = 1 <=> pc = "done"
    /\ pc = "done" =>
          /\ ended /\ output = <<>>
          /\ Len(out) >= Len(batch)
          /\ SubSeq(out, Len(out) - Len(batch) + 1, Len(out)) = batch
    /\ ended =>
          /\ branch = "end"
          /\ pc \in {"yield", "done"}
          /\ pc = "yield" => (ENABLED Yield \/ ENABLED Continue)
          /\ LET all == out \o output
             IN  /\ Len(all) >= Len(batch)
                 /\ SubSeq(all, Len(all) - Len(batch) + 1, Len(all)) = batch

CompletesWitness ==
    /\ pc = "done"
    /\ completions = 1
    /\ Len(batch) >= 2
    /\ Len(out) > Len(batch)

\* C7: Reduce::new fails on a configuration with both starts_when and
\* ends_when and no event is ever processed; a configuration with at most
\* one of them, whose condition builds, yields an engine.
BothBoundariesFailConstruction ==
    LET both == cfg.ends_when # "None" /\ cfg.starts_when # "None"
        bad  == cfg.ends_when = "Invalid" \/ cfg.starts_when = "Invalid"
    IN  /\ (both /\ pc # "new") => pc = "failed"
        /\ pc = "failed" =>
              /\ both \/ bad
              /\ input = <<>> /\ out = <<>> /\ output = <<>>
              /\ branch = "none"
              /\ DOMAIN reduce_merge_states = {}
        /\ (~both /\ ~bad /\ pc # "new") => pc # "failed"

BothBoundariesWitness ==
    /\ pc = "failed"
    /\ cfg.ends_when = "Some"
    /\ cfg.starts_when = "Some"

\* the trigger of the current iteration has been merged after the events
\* that bucket k held before it
Joined(k) ==
    LET ids == before[k].events \o <<Len(input)>>
    IN  \/ k \in DOMAIN reduce_merge_states /\ reduce_merge_states[k].events = ids
        \/ \E n \in DOMAIN batch : batch[n].ids = ids

\* every run of event ids that is, or was, one bucket
Buckets ==
    { reduce_merge_states[k].events : k \in DOMAIN reduce_merge_states }
        \cup { out[n].ids : n \in DOMAIN out }
        \cup { batch[n].ids : n \in DOMAIN batch }

\* C8: the events of one bucket all have the discriminant the bucket is
\* filed under, so no two open buckets share a discriminant, and an
\* incoming event (one that does not start a new bucket through
\* starts_when) is merged into an open bucket if and only if that bucket's
\* discriminant equals the event's.
SameBucketIffSameDiscriminant ==
    /\ \A k \in DOMAIN reduce_merge_states :
          \A m \in DOMAIN reduce_merge_states[k].events :
              DiscOf(input, reduce_merge_states[k].events[m]) = k
    /\ \A b \in Buckets :
          \A m, n \in DOMAIN b : DiscOf(input, b[m]) = DiscOf(input, b[n])
    /\ \A k1, k2 \in DOMAIN reduce_merge_states :
          (DiscOf(input, reduce_merge_states[k1].events[1])
              = DiscOf(input, reduce_merge_states[k2].events[1])) => k1 = k2
    /\ (branch = "event" /\ ~starts_here(Cur(input))) =>
          \A k \in DOMAIN before :
              Joined(k) <=> (k = DiscOf(input, Len(input)))

SameBucketWitness ==
    /\ branch = "event"
    /\ ~starts_here(Cur(input))
    /\ Cardinality(DOMAIN before) >= 2
    /\ DiscOf(input, Len(input)) \in DOMAIN before
    /\ Joined(DiscOf(input, Len(input)))

\* the upstream event with this id has no group_by field
Lacks(id) == RequestId \notin DOMAIN input[id].fields

\* C9: events that lack the group_by field are merged into one shared
\* bucket: no bucket ever holds both an event that lacks the field and one
\* that has it, at most one open bucket holds events that lack it, and an
\* incoming event that lacks it joins that bucket when it is open.
MissingGroupByShareOneBucket ==
    /\ \A b \in Buckets : \A m, n \in DOMAIN b : Lacks(b[m]) <=> Lacks(b[n])
    /\ Cardinality({ k \in DOMAIN reduce_merge_states :
                       Lacks(reduce_merge_states[k].events[1]) }) <= 1
    /\ (branch = "event" /\ ~starts_here(Cur(input)) /\ Lacks(Len(input))) =>
          \A k \in DOMAIN before : Lacks(before[k].events[1]) => Joined(k)

MissingGroupByWitness ==
    \E k1, k2 \in DOMAIN reduce_merge_states :
        /\ Len(reduce_merge_states[k1].events) >= 2
        /\ \A m \in DOMAIN reduce_merge_states[k1].events :
              Lacks(reduce_merge_states[k1].events[m])
        /\ ~Lacks(reduce_merge_states[k2].events[1])

\* the sum of field k over the upstream events listed in ids
RECURSIVE SumOver(_, _, _)
SumOver(inp, ids, k) ==
    IF ids = <<>> THEN 0
    ELSE (IF k \in DOMAIN inp[Head(ids)].fields
          THEN inp[Head(ids)].fields[k].i ELSE 0)
         + SumOver(inp, Tail(ids), k)

\* C10: a numeric field with no configured merge strategy has, in the
\* flushed output event, the sum of the field's values over all events
\* merged into the bucket.
NumericFieldIsSummed ==
    \A n \in DOMAIN out : \A k \in {Counter, Dotted} :
        (/\ new_key(k) \notin DOMAIN cfg.merge_strategies
         /\ from_raw(k) \notin DOMAIN cfg.merge_strategies
         /\ \E m \in DOMAIN out[n].ids : k \in DOMAIN input[out[n].ids[m]].fields)
        => \E p \in {from_raw(k), new_key(k)} :
              /\ p \in DOMAIN out[n].fields
              /\ out[n].fields[p] = Integer(SumOver(input, out[n].ids, k))

\* the values of field k in the events ids of inp that carry it, in order
Contribs(inp, ids, k) ==
    LET carries(i) == k \in DOMAIN inp[i].fields
        carriers == SelectSeq(ids, carries)
    IN  [n \in DOMAIN carriers |-> inp[carriers[n]].fields[k]]

\* no merge strategy is configured for the field k
Unconfigured(k) ==
    /\ from_raw(k) \notin DOMAIN cfg.merge_strategies
    /\ new_key(k) \notin DOMAIN cfg.merge_strategies

\* Every event downstream receives is an event of the batch of one
\* iteration (C16), so the claims on flushed values are stated on batches.

\* the field k of output o holds the value v
Holds(o, k, v) ==
    \/ from_raw(k) \in DOMAIN o.fields /\ o.fields[from_raw(k)] = v
    \/ new_key(k) \in DOMAIN o.fields /\ o.fields[new_key(k)] = v

\* C11: a field with no configured merge strategy whose value is not a
\* number has, in the flushed output event, the value of the first event
\* of the bucket that carried it; later values never replace it.
FirstValueIsKept ==
    \A n \in DOMAIN batch : \A k \in {Foo, RequestId, TestEnd} :
        LET c == Contribs(input, batch[n].ids, k)
        IN  (c # <<>> /\ c[1].t # "Integer" /\ Unconfigured(k))
                => Holds(batch[n], k, c[1])

FirstValueWitness ==
    \E n \in DOMAIN out :
        LET c == Contribs(input, out[n].ids, Foo)
        IN  /\ Unconfigured(Foo)
            /\ Len(c) = 3
            /\ c[1].t = "Bytes" /\ c[2].t = "Bytes" /\ c[2] # c[1]
            /\ c[3].t = "Integer"
            /\ Holds(out[n], Foo, c[1])

\* the strategy configured for the field k is strat
Configured(k, strat) ==
    /\ from_raw(k) \in DOMAIN cfg.merge_strategies
    /\ cfg.merge_strategies[from_raw(k)] = strat

IsBytes(v) == v.t = "Bytes"
IsInteger(v) == v.t = "Integer"

\* the strings of a non-empty sequence of Bytes joined by single spaces
RECURSIVE JoinSpace(_)
JoinSpace(strs) ==
    IF Len(strs) = 1 THEN strs[1].s
    ELSE strs[1].s \o " " \o JoinSpace(Tail(strs))

\* the first contribution of c that is a string or an array is a string
StringComesFirst(c) ==
    \E n \in DOMAIN c :
        /\ c[n].t = "Bytes"
        /\ \A m \in 1..(n - 1) : c[m].t # "Array"

\* C12 as stated: the flushed value of a concat field is the string
\* contributions joined by single spaces in arrival order, whatever else
\* was contributed.
ConcatJoinsStrings ==
    \A n \in DOMAIN batch :
        LET c == Contribs(input, batch[n].ids, Foo)
        IN  (Configured(Foo, "concat") /\ SelectSeq(c, IsBytes) # <<>>)
                => Holds(batch[n], Foo, Bytes(JoinSpace(SelectSeq(c, IsBytes))))

\* C12: when the first string or array contributed to a concat field of a
\* bucket is a string, the flushed value is the string contributions
\* joined by single spaces in arrival order, and numbers and arrays
\* contributed are dropped; a field that got numbers only is not flushed.
ConcatJoinsStringsOfStringBucket ==
    \A n \in DOMAIN batch :
        LET c == Contribs(input, batch[n].ids, Foo)
        IN  Configured(Foo, "concat") =>
              /\ StringComesFirst(c)
                    => Holds(batch[n], Foo, Bytes(JoinSpace(SelectSeq(c, IsBytes))))
              /\ (\A m \in DOMAIN c : c[m].t = "Integer")
                    => from_raw(Foo) \notin DOMAIN batch[n].fields

ConcatWitness ==
    \E n \in DOMAIN out :
        LET c == Contribs(input, out[n].ids, Foo)
        IN  /\ Configured(Foo, "concat")
            /\ Len(c) = 3
            /\ c[1] = Bytes("x") /\ c[2].t # "Bytes" /\ c[3] = Bytes("y")
            /\ Holds(out[n], Foo, Bytes("x y"))

\* C13: the flushed value of a field configured with the array strategy is
\* a sequence with one element per contributing event, in arrival order,
\* each element the event's whole value for the field, of any type.
ArrayCollectsEveryValue ==
    \A n \in DOMAIN batch :
        LET c == Contribs(input, batch[n].ids, Foo)
        IN  (Configured(Foo, "array") /\ c # <<>>) => Holds(batch[n], Foo, Array(c))

ArrayWitness ==
    \E n \in DOMAIN out :
        LET c == Contribs(input, out[n].ids, Foo)
        IN  /\ Configured(Foo, "array")
            /\ Len(c) = 3
            /\ c[1].t = "Integer" /\ c[2].t = "Array" /\ c[3].t = "Bytes"
            /\ Holds(out[n], Foo, Array(c))

\* the largest number of a non-empty sequence of Integer values
MaxOf(nums) ==
    CHOOSE x \in { nums[n].i : n \in DOMAIN nums } :
        \A y \in { nums[n].i : n \in DOMAIN nums } : y <= x

\* C14: the flushed value of a field configured with the max strategy is
\* the maximum of the bucket's numeric contributions; contributions that
\* are not numbers are dropped and leave the running maximum as it was.
MaxKeepsLargestNumber ==
    \A n \in DOMAIN batch :
        LET c == Contribs(input, batch[n].ids, Foo)
        IN  Configured(Foo, "max") =>
              IF SelectSeq(c, IsInteger) # <<>>
              THEN Holds(batch[n], Foo, Integer(MaxOf(SelectSeq(c, IsInteger))))
              ELSE from_raw(Foo) \notin DOMAIN batch[n].fields

MaxWitness ==
    \E n \in DOMAIN out :
        LET c == Contribs(input, out[n].ids, Foo)
        IN  /\ Configured(Foo, "max")
            /\ Len(c) = 3
            /\ c[1] = Integer(1) /\ c[2].t = "Bytes" /\ c[3] = Integer(2)
            /\ Holds(out[n], Foo, Integer(2))

\* merging value v into the field k of the mergers `fields` is a mismatch
Mismatch(fields, k, v) ==
    IF from_raw(k) \in DOMAIN fields
    THEN ~merger_add(fields[from_raw(k)], v).ok
    ELSE /\ from_raw(k) \in DOMAIN cfg.merge_strategies
         /\ ~get_value_merger(v, cfg.merge_strategies[from_raw(k)]).ok

\* what the bucket the last event went to would flush, or has flushed
BucketOfCur ==
    LET e == Cur(input)
        d == DiscOf(input, e.id)
    IN  IF d \in DOMAIN reduce_merge_states
        THEN flush(reduce_merge_states[d])
        ELSE batch[CHOOSE n \in DOMAIN batch :
                     \E m \in DOMAIN batch[n].ids : batch[n].ids[m] = e.id]

\* C15: when one field of an event fails to merge into its bucket, the
\* field keeps what it had accumulated, the other fields of the event are
\* merged, the event counts as merged, the buckets of other discriminants
\* keep their content (open, or flushed whole by the sweep that ends
\* transform_one), and the loop goes on to yield the batch.
MismatchSkipsOneField ==
    (pc = "yield" /\ branch = "event") =>
        LET e == Cur(input)
            d == DiscOf(input, e.id)
            prior == IF d \in DOMAIN before THEN before[d].fields ELSE EmptyMap
            was == IF d \in DOMAIN before
                   THEN flush(before[d])
                   ELSE [fields |-> EmptyMap, ids |-> <<>>]
            is == BucketOfCur
        IN  Mismatch(prior, Foo, e.fields[Foo]) =>
              /\ from_raw(Foo) \in DOMAIN is.fields <=> from_raw(Foo) \in DOMAIN was.fields
              /\ from_raw(Foo) \in DOMAIN was.fields
                    => is.fields[from_raw(Foo)] = was.fields[from_raw(Foo)]
              /\ is.fields[from_raw(Counter)] =
                    Integer((IF d \in DOMAIN before
                             THEN was.fields[from_raw(Counter)].i ELSE 0) + 1)
              /\ \A k \in DOMAIN e.fields \ {Foo} : from_raw(k) \in DOMAIN is.fields
              /\ is.ids = Append(was.ids, e.id)
              /\ \A o \in DOMAIN before \ {d} :
                    \/ o \in DOMAIN reduce_merge_states
                          /\ reduce_merge_states[o] = before[o]
                    \/ o \notin DOMAIN reduce_merge_states
                          /\ \E n \in DOMAIN batch : batch[n] = flush(before[o])
              /\ ~done

MismatchWitness ==
    /\ pc = "yield" /\ branch = "event"
    /\ LET e == Cur(input)
           d == DiscOf(input, e.id)
       IN  /\ d \in DOMAIN before
           /\ from_raw(Foo) \in DOMAIN before[d].fields
           /\ Mismatch(before[d].fields, Foo, e.fields[Foo])
           /\ \E o \in DOMAIN before \ {d} : o \in DOMAIN reduce_merge_states
           /\ d \in DOMAIN reduce_merge_states
           /\ reduce_merge_states[d].fields[from_raw(Counter)].v = Integer(2)

\* C16: the outputs of one iteration (a sweep, an event, the final drain)
\* are all handed downstream, in the batch's order, before the loop
\* selects again: while the loop may take a tick or an upstream item
\* nothing of a batch is unconsumed, and while a batch is being yielded
\* downstream has received exactly its first events.
BatchYieldedBeforeNextSelect ==
    /\ pc \in {"new", "failed", "select", "panicked", "done"} => output = <<>>
    /\ pc = "select" => batch = <<>>
    /\ pc \in {"yield", "done"} =>
          LET k == Len(batch) - Len(output)
          IN  /\ k >= 0 /\ k <= Len(out)
              /\ output = SubSeq(batch, k + 1, Len(batch))
              /\ SubSeq(out, Len(out) - k + 1, Len(out)) = SubSeq(batch, 1, k)

BatchYieldedWitness ==
    /\ pc = "yield"
    /\ branch = "tick"
    /\ Len(batch) = 2
    /\ Len(output) = 1
    /\ out # <<>> /\ out[Len(out)] = batch[1]

\* the buckets the sweep or the drain of the current iteration removed
Flushed == DOMAIN before \ DOMAIN reduce_merge_states

\* C17: flushing a bucket gives exactly one output event; it holds under
\* each merger's path the merger's final value and holds no other field.
FlushWritesEveryMergerOnce ==
    (pc = "yield" /\ branch \in {"tick", "end"}) =>
        /\ Len(batch) = Cardinality(Flushed)
        /\ \A d \in Flushed :
              \E n \in DOMAIN batch :
                 /\ batch[n].ids = before[d].events
                 /\ DOMAIN batch[n].fields = DOMAIN before[d].fields
                 /\ \A p \in DOMAIN before[d].fields :
                       batch[n].fields[p] = before[d].fields[p].v
                 /\ \A m \in DOMAIN batch : batch[m].ids = before[d].events => m = n

FlushWitness ==
    /\ pc = "yield" /\ branch = "tick"
    /\ \E d \in Flushed :
          /\ Cardinality(DOMAIN before[d].fields) = 3
          /\ before[d].fields[from_raw(Foo)].kind = "Concat"
          /\ before[d].fields[from_raw(Foo)].v = Bytes("x y")
          /\ \E n \in DOMAIN batch :
                /\ DOMAIN batch[n].fields = DOMAIN before[d].fields
                /\ batch[n].fields[from_raw(Foo)] = Bytes("x y")

\* C18 as stated: for every string the parser accepts, to_string of the
\* parsed path gives back the string, quoted fields and bracketed indices
\* included.
RoundTripOfEveryAcceptedString ==
    lookup_pc = "rendered" => rendered = lookup_input

\* the string holds a bracket opened on a 0 that another digit follows
LeadingZero(str) ==
    \E i \in 1..(Len(str) - 2) :
        /\ str[i] = "[" /\ str[i + 1] = "0"
        /\ \E d \in DOMAIN Digits : Digits[d] = str[i + 2]

\* C18: for every string the parser accepts, to_string of the parsed path
\* parses to the same path again, and gives back the string itself when no
\* index of the string is written with a leading zero.
RoundTripOfCanonicalString ==
    lookup_pc = "rendered" =>
        /\ from_str(rendered) = lookup
        /\ ~LeadingZero(lookup_input) => rendered = lookup_input

RoundTripWitness ==
    /\ lookup_pc = "rendered"
    /\ lookup_input[1] = "\""
    /\ Len(lookup.path) = 3
    /\ lookup.path[Len(lookup.path)] = IndexSeg(1)
    /\ lookup.path[Len(lookup.path) - 1] = IndexSeg(0)
    /\ rendered = lookup_input

\* C19: parsing the empty string returns an error, never a path.
EmptyStringIsRejected ==
    (lookup_pc \in {"parsed", "rendered"} /\ lookup_input = <<>>) =>
        /\ ~lookup.ok
        /\ lookup_pc = "parsed"

EmptyStringWitness ==
    /\ lookup_pc = "parsed"
    /\ lookup_input = <<>>
    /\ ~lookup.ok

\* a bare field, or a quoted one
IsField(f) ==
    \/ f # <<>> /\ \A n \in DOMAIN f : f[n] \notin {".", "[", "\""}
    \/ /\ Len(f) >= 3 /\ f[1] = "\"" /\ f[Len(f)] = "\""
       /\ \A n \in 2..(Len(f) - 1) : f[n] # "\""

\* the text of a run of bracketed indices
RECURSIVE Brackets(_)
Brackets(ks) ==
    IF ks = <<>> THEN <<>>
    ELSE <<"[">> \o Head(ks) \o <<"]">> \o Brackets(Tail(ks))

\* the runs of at most MaxIndices indices, each with its text
IndexRuns ==
    { [run |-> ks, text |-> Brackets(ks)] :
        ks \in UNION { [1..k -> IndexTexts] : k \in 0..MaxIndices } }

\* the input from position `from` on is a field followed by a run of k
\* bracketed indices => the path is `fields`, then that field, then the
\* k indices in order, at the positions 0, 1, ... of the path
FieldThenIndices(fields, from) ==
    \A m \in from..Len(lookup_input) :
        IsField(SubSeq(lookup_input, from, m)) =>
            \A r \in IndexRuns :
                r.text = SubSeq(lookup_input, m + 1, Len(lookup_input)) =>
                    LET expected == Append(fields, FieldSeg(SubSeq(lookup_input, from, m)))
                                       \o [j \in 1..Len(r.run) |-> IndexSeg(ToNat(r.run[j]))]
                    IN  /\ lookup.ok
                        /\ Len(lookup.path) = Len(fields) + 1 + Len(r.run)
                        /\ \A i \in 0..(Len(expected) - 1) :
                              index(lookup.path, i) = expected[i + 1]

\* C20: a field followed by k bracketed indices parses to 1 + k flat
\* segments, the field and then one index segment per bracket pair in
\* order, also after a dotted field before it; the positions of the path
\* count these segments.
IndicesAreFlatSegments ==
    lookup_pc = "parsed" =>
        /\ FieldThenIndices(<<>>, 1)
        /\ \A h \in 1..(Len(lookup_input) - 2) :
              (lookup_input[h + 1] = "." /\ IsField(SubSeq(lookup_input, 1, h)))
                  => FieldThenIndices(<<FieldSeg(SubSeq(lookup_input, 1, h))>>, h + 2)

IndicesWitness ==
    /\ lookup_pc = "parsed"
    /\ lookup_input = <<"a", ".", "a", "[", "0", "]", "[", "0", "1", "]">>
    /\ Len(lookup.path) = 4
    /\ index(lookup.path, 2) = IndexSeg(0)
    /\ index(lookup.path, 3) = IndexSeg(1)

\* C21: the raw constructor gives, for every string, those with a period,
\* a bracket or a quote included, a path of exactly one segment, the field
\* named by the whole string unchanged, and rendering that path gives the
\* string back.
RawPathIsOneVerbatimField ==
    lookup_pc \in {"raw", "rendered_raw"} =>
        /\ lookup.ok
        /\ Len(lookup.path) = 1
        /\ index(lookup.path, 0) = FieldSeg(lookup_input)
        /\ lookup_pc = "rendered_raw" => rendered = lookup_input

RawPathWitness ==
    /\ lookup_pc = "rendered_raw"
    /\ lookup_input = <<"a", ".", "a", ".">>
    /\ Len(lookup.path) = 1
    /\ rendered = lookup_input

\* C22 as stated: a path that a constructor returned has at least one
\* segment, and still has after any sequence of push, pop and extend.
PathIsNeverEmpty ==
    Constructed => Len(lookup.path) >= 1

\* the component sequence p comes before q in the depth-first order: at
\* the first component where they differ, the key of p sorts before the
\* key of q, or the index of p is below the index of q
Precedes(p, q) ==
    \E n \in 1..Len(p) :
        /\ n <= Len(q)
        /\ \A j \in 1..(n - 1) : p[j] = q[j]
        /\ p[n] # q[n]
        /\ p[n].kind = q[n].kind
        /\ IF p[n].kind = "Key" THEN str_lt(p[n].key, q[n].key)
                                ELSE p[n].index < q[n].index

\* the component sequences that lead from the value to its scalars
RECURSIVE LeafPaths(_, _)
LeafPaths(v, prefix) ==
    IF v.t = "Map"
    THEN UNION { LeafPaths(v.m[k], Append(prefix, Key(k))) : k \in DOMAIN v.m }
    ELSE IF v.t = "Array"
    THEN UNION { LeafPaths(v.a[n], Append(prefix, Index(n - 1))) : n \in DOMAIN v.a }
    ELSE { prefix }

\* the value the components lead to from the value v, Absent when they
\* lead nowhere
RECURSIVE Descend(_, _)
Descend(v, components) ==
    IF components = <<>> THEN v
    ELSE LET first == Head(components)
         IN  IF v.t = "Map" /\ first.kind = "Key" /\ first.key \in DOMAIN v.m
             THEN Descend(v.m[first.key], Tail(components))
             ELSE IF v.t = "Array" /\ first.kind = "Index" /\ first.index < Len(v.a)
             THEN Descend(v.a[first.index + 1], Tail(components))
             ELSE Absent

\* C23: the items come in depth-first pre-order: of two items the earlier
\* one is the one whose key sorts first, or whose index is lower, where
\* their ways from the root part, so that all the leaves under a child
\* come before any leaf of its next sibling; and when the traversal has
\* ended every leaf of the tree has been yielded.
TraversalIsPreOrder ==
    /\ \A i, j \in DOMAIN yielded :
          i < j => Precedes(yielded[i].components, yielded[j].components)
    /\ fields_pc = "done" =>
          { yielded[n].components : n \in DOMAIN yielded } = LeafPaths(Map(tree), <<>>)

PreOrderWitness ==
    /\ fields_pc = "done"
    /\ Len(yielded) = 3
    /\ yielded[1].path = <<"a", "[", "0", "]">>
    /\ yielded[2].path = <<"a", "[", "1", "]">>
    /\ yielded[3].path = <<"a", "b">>

\* C24: every value yielded is a scalar, the one the tree holds at the end
\* of the item's way from the root; a map or an array is never yielded.
OnlyScalarLeavesAreYielded ==
    \A n \in DOMAIN yielded :
        /\ yielded[n].value.t \notin {"Map", "Array"}
        /\ yielded[n].value \in Scalars
        /\ Descend(Map(tree), yielded[n].components) = yielded[n].value

OnlyScalarsWitness ==
    /\ fields_pc = "done"
    /\ Len(yielded) = 1
    /\ Len(yielded[1].components) = 3
    /\ yielded[1].components[2].kind = "Index"
    /\ \E k \in DOMAIN tree : tree[k] = Map([x \in {} |-> Null])

\* the components written one after the other, a period before every key
\* but the first component, an index in brackets
RECURSIVE JoinComponents(_)
JoinComponents(components) ==
    IF components = <<>> THEN <<>>
    ELSE LET last == components[Len(components)]
             front == JoinComponents(SubSeq(components, 1, Len(components) - 1))
         IN  IF last.kind = "Index"
             THEN front \o <<"[">> \o FromNat(last.index) \o <<"]">>
             ELSE IF Len(components) = 1 THEN last.key
             ELSE front \o <<".">> \o last.key

\* C25: the path string of an item is made of the components from the
\* root to the leaf in order, a key written as it is with a period before
\* it unless it is the first component, an index written in brackets with
\* nothing before the bracket, and nothing else.
PathStringJoinsComponents ==
    \A n \in DOMAIN yielded :
        yielded[n].path = JoinComponents(yielded[n].components)

PathStringWitness ==
    \E n \in DOMAIN yielded :
        /\ yielded[n].path = <<"a", "b", "[", "0", "]", ".", "b">>
        /\ yielded[n].value = Null

\* the events of the first n items of the input
EventsOfLines(n) == [k \in 1..n |-> create_event(stdin_input[k].text)]

\* the item is a line, not a read error
IsLine(item) == item.ok

\* C26 as stated: when the task has finished, the pipeline has received
\* exactly one event per line that was read, in the order of the lines,
\* the task has finished successfully and the pipeline is closed.
StdinEmitsEveryLine ==
    stdin_pc = "finished" =>
        /\ pipeline = [k \in 1..Len(SelectSeq(stdin_input, IsLine)) |->
                          create_event(SelectSeq(stdin_input, IsLine)[k].text)]
        /\ res = "Ok"
        /\ pipeline_closed

\* C26: the events the pipeline has received are at any time the events
\* of the first lines of the input, one per line, in their order; when
\* the task has finished the pipeline is closed; and when it has finished
\* with no shutdown signalled, no read error in the input and the
\* receiver of the pipeline alive, every line has its event and the
\* result is Ok.
StdinEmitsEveryLineUnlessStopped ==
    /\ \E n \in 0..Len(stdin_input) :
          /\ pipeline = EventsOfLines(n)
          /\ \A k \in 1..n : stdin_input[k].ok
    /\ pipeline_closed <=> stdin_pc = "finished"
    /\ ( /\ stdin_pc = "finished"
         /\ ~shutdown
         /\ rx_open
         /\ \A k \in DOMAIN stdin_input : stdin_input[k].ok )
        => /\ pipeline = EventsOfLines(Len(stdin_input))
           /\ res = "Ok"
           /\ thread_pc = "returned"

StdinWitness ==
    /\ stdin_pc = "finished"
    /\ ~shutdown
    /\ rx_open
    /\ res = "Ok"
    /\ pipeline_closed
    /\ pipeline = << create_event("hello world"), create_event("hello world again") >>

\* the merger m after the values have been offered to it in order
RECURSIVE MergeAll(_, _)
MergeAll(m, values) ==
    IF values = <<>> THEN m
    ELSE MergeAll(IF merger_add(m, Head(values)).ok
                  THEN merger_add(m, Head(values)).m ELSE m, Tail(values))

\* C27 as stated: for every field key of the event that opened a bucket
\* that occurs again in a later event of the bucket, the bucket holds the
\* merger created from the opening event with the later values combined
\* into it, and no second merger for that field.
OneMergerPerField ==
    \A d \in DOMAIN reduce_merge_states :
        LET b == reduce_merge_states[d]
            opening == ReduceState_new(input[b.events[1]], cfg.merge_strategies, 0)
        IN  \A k \in DOMAIN input[b.events[1]].fields :
                (/\ new_key(k) \in DOMAIN opening.fields
                 /\ \E n \in 2..Len(b.events) : k \in DOMAIN input[b.events[n]].fields)
                => /\ new_key(k) \in DOMAIN b.fields
                   /\ b.fields[new_key(k)] =
                         MergeAll(opening.fields[new_key(k)],
                                  Tail(Contribs(input, b.events, k)))
                   /\ \A p \in {from_raw(k), new_key(k)} \ {new_key(k)} :
                         p \notin DOMAIN b.fields

\* the kind of merger a strategy creates for a number
KindOf(strat) == get_value_merger(Integer(0), strat).m.kind

\* C28 as stated: the merger a bucket holds for a field is of the kind of
\* the strategy configured for the field, and of the kind of the
\* type-dependent default when none is configured, whether the field came
\* with the event that opened the bucket or with a later one.
StrategyIsTheSameLater ==
    \A d \in DOMAIN reduce_merge_states : \A k \in {Counter, Dotted} :
        \A p \in {from_raw(k), new_key(k)} \cap DOMAIN reduce_merge_states[d].fields :
            reduce_merge_states[d].fields[p].kind =
                IF new_key(k) \in DOMAIN cfg.merge_strategies
                THEN KindOf(cfg.merge_strategies[new_key(k)])
                ELSE default_merger(Integer(0)).kind

\* the bucket that ReduceState::new and add_event make of the events ids
RECURSIVE Rebuilt(_, _)
Rebuilt(ids, n) ==
    IF n = 1 THEN ReduceState_new(input[ids[1]], cfg.merge_strategies, 0)
    ELSE add_event(Rebuilt(ids, n - 1), input[ids[n]], cfg.merge_strategies, 0)

\* every output so far: what downstream has received and what is pending
Emitted == out \o output

\* C29: no event is part of two outputs, nor of an output and of an open
\* bucket, so a bucket is emitted at most once; and an open bucket is what
\* its own events make of a fresh bucket, the first of them opening it,
\* with nothing of the events merged for the discriminant before a flush.
BucketsAreEmittedOnce ==
    /\ \A n, m \in DOMAIN Emitted :
          n # m => \A i \in DOMAIN Emitted[n].ids, j \in DOMAIN Emitted[m].ids :
                      Emitted[n].ids[i] # Emitted[m].ids[j]
    /\ \A d \in DOMAIN reduce_merge_states :
          LET b == reduce_merge_states[d]
          IN  /\ \A n \in DOMAIN Emitted : \A i \in DOMAIN Emitted[n].ids :
                    \A j \in DOMAIN b.events : Emitted[n].ids[i] # b.events[j]
              /\ b.fields = Rebuilt(b.events, Len(b.events)).fields
              /\ \A j \in DOMAIN b.events : DiscOf(input, b.events[j]) = d

EmittedOnceWitness ==
    /\ Len(out) = 2
    /\ DiscOf(input, out[1].ids[1]) = DiscOf(input, out[2].ids[1])
    /\ out[1].ids = <<1>>
    /\ out[2].ids = <<2>>
    /\ \E d \in DOMAIN reduce_merge_states :
          /\ d = DiscOf(input, 1)
          /\ reduce_merge_states[d].events = <<3>>

\* the outputs of the batch that the staleness sweep flushed: all of them
\* on a tick, on an event all but the output of the ends_when branch and
\* the old bucket that the starts_when branch flushed
SweptOutputs ==
    { n \in DOMAIN batch :
        \/ branch = "tick"
        \/ /\ branch = "event"
           /\ ~(ends_here(Cur(input)) /\ batch[n].ids[Len(batch[n].ids)] = Cur(input).id)
           /\ ~(/\ starts_here(Cur(input))
                /\ DiscOf(input, batch[n].ids[1]) = DiscOf(input, Cur(input).id)
                /\ batch[n].ids[Len(batch[n].ids)] # Cur(input).id) }

\* the buckets that the iteration that has just run opened or merged into
Touched ==
    { d \in DOMAIN reduce_merge_states :
        d \notin DOMAIN before \/ before[d].events # reduce_merge_states[d].events }

\* C30: after an iteration, a bucket it opened or merged an event into has
\* the time of the iteration as its last-touched time and every other open
\* bucket has the last-touched time it had, so the last-touched time is
\* the time the bucket's most recent event was processed at; and a bucket
\* that a staleness sweep flushes either got the event of this iteration,
\* and then expire_after is zero, or was last touched at least
\* expire_after before the sweep.
SweepSparesRecentBuckets ==
    branch \in {"event", "tick"} =>
        /\ \A d \in Touched : reduce_merge_states[d].stale_since = now
        /\ \A d \in DOMAIN reduce_merge_states \ Touched :
              reduce_merge_states[d].stale_since = before[d].stale_since
        /\ \A n \in SweptOutputs :
              IF branch = "event" /\ batch[n].ids[Len(batch[n].ids)] = Cur(input).id
              THEN cfg.expire_after = 0
              ELSE \E d \in DOMAIN before :
                      /\ before[d].events = batch[n].ids
                      /\ now - before[d].stale_since >= cfg.expire_after

SweepSparesWitness ==
    /\ branch = "tick"
    /\ cfg.expire_after = MaxExpire
    /\ batch # <<>>
    /\ \E d \in DOMAIN before :
          /\ d \in DOMAIN reduce_merge_states
          /\ Len(before[d].events) = 2
          /\ before[d].stale_since > 0
          /\ now - before[d].stale_since < cfg.expire_after

\* C31: an iteration of the loop handles one readiness event, a tick, an
\* upstream event, the end of upstream or an upstream error, and nothing
\* else; with upstream and the timer ready at every select!, a tick is
\* handled in the end unless upstream has ended or failed, and an upstream
\* item is handled in the end.
SelectHandlesOneAndIsFair ==
    /\ [][pc = "select" /\ pc' # "select" =>
            \/ /\ branch' = "tick"
               /\ input' = input /\ ended' = ended /\ pc' = "yield"
            \/ /\ branch' = "event"
               /\ Len(input') = Len(input) + 1 /\ ended' = ended /\ pc' = "yield"
            \/ /\ branch' = "end"
               /\ input' = input /\ ~ended /\ ended' /\ pc' = "yield"
            \/ /\ branch' = "error"
               /\ input' = input /\ ended' = ended /\ pc' = "panicked"]_vars
    /\ (pc = "select") ~> (branch = "tick" \/ ended \/ pc = "panicked")
    /\ (pc = "select") ~> (branch \in {"event", "end", "error"})

SelectWitness ==
    /\ branch = "tick"
    /\ pc = "yield"
    /\ Len(input) = 1
    /\ Len(out) = 1
    /\ now = 0
    /\ ~ended

\* C32: after an event of discriminant D has been processed, every bucket
\* of another discriminant that was open is either still open with the
\* mergers, the last-touched time and the events it had, or is gone and
\* its flush, whole, is in the batch, the bucket having been stale at the
\* sweep; and no bucket of another discriminant has appeared.
OtherBucketsAreUntouched ==
    branch = "event" =>
        LET D == DiscOf(input, Cur(input).id)
        IN  /\ \A d \in DOMAIN before \ {D} :
                  \/ /\ d \in DOMAIN reduce_merge_states
                     /\ reduce_merge_states[d] = before[d]
                  \/ /\ d \notin DOMAIN reduce_merge_states
                     /\ now - before[d].stale_since >= cfg.expire_after
                     /\ \E n \in DOMAIN batch : batch[n] = flush(before[d])
            /\ DOMAIN reduce_merge_states \ {D} \subseteq DOMAIN before

OtherBucketsWitness ==
    /\ branch = "event"
    /\ cfg.expire_after = MaxExpire
    /\ \E d, e \in DOMAIN before :
          /\ d # DiscOf(input, Cur(input).id)
          /\ e # DiscOf(input, Cur(input).id)
          /\ d \in DOMAIN reduce_merge_states
          /\ before[d].stale_since < now
          /\ e \notin DOMAIN reduce_merge_states

\* the outputs, of those emitted or pending, whose last event met ends_when
EndOutputs ==
    { n \in DOMAIN Emitted : ends_here(input[Emitted[n].ids[Len(Emitted[n].ids)]]) }

\* C33: the outputs that an event meeting ends_when closed come downstream
\* in the order in which those events arrived, and every event that met
\* ends_when has closed one.
EndOutputsFollowArrival ==
    /\ \A n, m \in EndOutputs :
          n < m => Emitted[n].ids[Len(Emitted[n].ids)] < Emitted[m].ids[Len(Emitted[m].ids)]
    /\ \A i \in DOMAIN input :
          ends_here(input[i]) =>
              \E n \in EndOutputs : Emitted[n].ids[Len(Emitted[n].ids)] = i

EndOutputsWitness ==
    /\ Len(out) >= 2
    /\ \E n, m \in EndOutputs :
          /\ n < m
          /\ m <= Len(out)
          /\ DiscOf(input, Emitted[n].ids[1]) # DiscOf(input, Emitted[m].ids[1])
          /\ Len(Emitted[n].ids) = 1
          /\ Len(Emitted[m].ids) = 2

\* the elements of the arrays of c and the other values of c, in order
RECURSIVE Flattened(_)
Flattened(c) ==
    IF c = <<>> THEN <<>>
    ELSE (IF c[1].t = "Array" THEN c[1].a ELSE <<c[1]>>) \o Flattened(Tail(c))

\* C34: when the first contribution of a bucket to a field configured with
\* concat is an array, the flushed value is one array: the elements of the
\* first array, then for every later contribution in arrival order its
\* elements when it is an array and the contribution itself when not.
ConcatFlattensArrays ==
    \A n \in DOMAIN batch :
        LET c == Contribs(input, batch[n].ids, Foo)
        IN  (Configured(Foo, "concat") /\ c # <<>> /\ c[1].t = "Array")
                => Holds(batch[n], Foo, Array(Flattened(c)))

ConcatArraysWitness ==
    \E n \in DOMAIN out :
        LET c == Contribs(input, out[n].ids, Foo)
        IN  /\ Configured(Foo, "concat")
            /\ c = << Array(<<Integer(1), Integer(3)>>), Array(<<Integer(5), Integer(7)>>),
                      Bytes("done") >>
            /\ Holds(out[n], Foo,
                     Array(<<Integer(1), Integer(3), Integer(5), Integer(7), Bytes("done")>>))

\* C35: when an upstream event has been processed, no bucket is open whose
\* time since its last update is expire_after or more, and every bucket
\* that was open and stale and did not get the event is in the batch,
\* with no tick needed; with expire_after zero no bucket is open at all.
EventEndsWithSweep ==
    branch = "event" =>
        /\ \A d \in DOMAIN reduce_merge_states :
              now - reduce_merge_states[d].stale_since < cfg.expire_after
        /\ \A d \in StaleAt(before, now) \ {DiscOf(input, Cur(input).id)} :
              \E n \in DOMAIN batch : batch[n].ids = before[d].events
        /\ cfg.expire_after = 0 => DOMAIN reduce_merge_states = {}

EventSweepWitness ==
    /\ branch = "event"
    /\ cfg.expire_after = MaxExpire
    /\ DiscOf(input, Cur(input).id) \in DOMAIN reduce_merge_states
    /\ \E d \in StaleAt(before, now) :
          /\ d # DiscOf(input, Cur(input).id)
          /\ \A i \in DOMAIN input : input[i].id < Cur(input).id => DiscOf(input, i) = d

\* C36: once upstream has yielded an error the task has panicked: nothing
\* is pending, the output stream has not ended, no event of a bucket open
\* at that moment has been emitted, and nothing happens any more, so
\* those buckets are never emitted and the stream never ends normally.
UpstreamErrorStopsTheLoop ==
    /\ [](branch = "error" =>
            /\ pc = "panicked"
            /\ output = <<>>
            /\ ~done
            /\ completions = 0
            /\ \A d \in DOMAIN reduce_merge_states : \A n \in DOMAIN out :
                  \A i \in DOMAIN out[n].ids :
                      \A j \in DOMAIN reduce_merge_states[d].events :
                          out[n].ids[i] # reduce_merge_states[d].events[j])
    /\ [][branch # "error"]_vars

UpstreamErrorWitness ==
    /\ branch = "error"
    /\ pc = "panicked"
    /\ Len(out) = 1
    /\ Cardinality(DOMAIN reduce_merge_states) = 2

\* the outputs downstream has received that the upstream event i is part of
OutputsOf(i) ==
    { n \in DOMAIN out : \E j \in DOMAIN out[n].ids : out[n].ids[j] = i }

\* C37: when upstream has ended and the loop has exited, every upstream
\* event is part of exactly one output that downstream has received and
\* occurs once in it, every output is made of at least one event, and
\* there are no more outputs than upstream events.
EveryEventIsEmittedOnce ==
    pc = "done" =>
        /\ \A i \in DOMAIN input :
              /\ Cardinality(OutputsOf(i)) = 1
              /\ \A n \in OutputsOf(i) :
                    Cardinality({ j \in DOMAIN out[n].ids : out[n].ids[j] = i }) = 1
        /\ \A n \in DOMAIN out :
              /\ out[n].ids # <<>>
              /\ \A j \in DOMAIN out[n].ids : out[n].ids[j] \in DOMAIN input
        /\ Len(out) <= Len(input)
        /\ DOMAIN reduce_merge_states = {}
        /\ output = <<>>

EveryEventWitness ==
    /\ pc = "done"
    /\ Len(input) = MaxEvents
    /\ Len(out) = 2
    /\ cfg.starts_when = "Some"
    /\ \E n \in DOMAIN out : Len(out[n].ids) = 2

\* the bucket that the upstream event i opened is open, last touched at t
OpenSince(i, t) ==
    \E d \in DOMAIN reduce_merge_states :
        /\ reduce_merge_states[d].events[1] = i
        /\ reduce_merge_states[d].stale_since = t

\* the bucket that the upstream event i opened is in no map any more and
\* its output has been emitted
EmittedAndRemoved(i) ==
    /\ \A d \in DOMAIN reduce_merge_states : reduce_merge_states[d].events[1] # i
    /\ \E n \in DOMAIN Emitted : Emitted[n].ids[1] = i

\* C38: with ticks handled again and again and upstream free to stay
\* silent, a bucket that is open and was last touched at t, early enough
\* for the clock of the model to reach t + expire_after, is in the end
\* emitted and removed, unless it gets a further event later than t or
\* the task has panicked on an upstream error.
StaleBucketIsEmittedInTheEnd ==
    \A i \in 1..MaxEvents : \A t \in 0..MaxTime :
        (OpenSince(i, t) /\ t + cfg.expire_after <= MaxTime)
            ~> \/ EmittedAndRemoved(i)
               \/ \E later \in (t + 1)..MaxTime : OpenSince(i, later)
               \/ pc = "panicked"

StaleBucketWitness ==
    /\ branch = "tick"
    /\ cfg.expire_after = MaxExpire
    /\ now = MaxTime
    /\ ~ended
    /\ Len(input) = 2
    /\ EmittedAndRemoved(1)
    /\ OpenSince(2, 1)

\* C39: every call of next yields a leaf not yielded before, so there are
\* never more items than the tree has scalar leaves and None comes after
\* that many calls at most; when None has come there is one item for each
\* scalar leaf and none for a map or an array that holds no scalar; and a
\* call after None returns None again and yields nothing.
TraversalEndsAndStaysEnded ==
    /\ [](/\ Len(yielded) <= Cardinality(LeafPaths(Map(tree), <<>>))
          /\ \A i, j \in DOMAIN yielded :
                i # j => yielded[i].components # yielded[j].components
          /\ fields_pc \in {"done", "exhausted"} =>
                /\ Len(yielded) = Cardinality(LeafPaths(Map(tree), <<>>))
                /\ { yielded[n].components : n \in DOMAIN yielded }
                      = LeafPaths(Map(tree), <<>>)
                /\ \A n \in DOMAIN yielded : yielded[n].value.t \notin {"Map", "Array"})
    /\ [][(fields_pc = "done" \/ fields_pc = "exhausted") =>
              (fields_pc' = "exhausted" /\ yielded' = yielded)]_vars

TraversalEndsWitness ==
    /\ fields_pc = "exhausted"
    /\ Len(yielded) = 1
    /\ \E k \in DOMAIN tree : tree[k] = Array(<<>>)
    /\ \E k \in DOMAIN tree : tree[k] = Map([x \in {} |-> Null])

\* the frame iterates over what the map or array v holds
FrameIsOver(frame, v) ==
    \/ v.t = "Map" /\ frame.kind = "Map" /\ frame.node = v.m
    \/ v.t = "Array" /\ frame.kind = "Array" /\ frame.node = v.a

\* C40: between two calls of next, when the stack of iterators is not
\* empty the path has one component fewer than the stack has frames, the
\* first frame is over the map given to all_fields and the i-th component
\* is the key or the index under which the node of frame i holds the node
\* of frame i + 1; when the traversal has returned None both are empty.
PathFollowsStack ==
    fields_pc \in {"iterating", "done", "exhausted"} =>
        /\ iter_stack # <<>> =>
              /\ Len(iter_path) = Len(iter_stack) - 1
              /\ FrameIsOver(iter_stack[1], Map(tree))
              /\ \A i \in DOMAIN iter_path :
                    IF iter_path[i].kind = "Key"
                    THEN /\ iter_stack[i].kind = "Map"
                         /\ iter_path[i].key \in DOMAIN iter_stack[i].node
                         /\ FrameIsOver(iter_stack[i + 1],
                                        iter_stack[i].node[iter_path[i].key])
                    ELSE /\ iter_stack[i].kind = "Array"
                         /\ iter_path[i].index < Len(iter_stack[i].node)
                         /\ FrameIsOver(iter_stack[i + 1],
                                        iter_stack[i].node[iter_path[i].index + 1])
        /\ iter_stack = <<>> => iter_path = <<>>
        /\ fields_pc \in {"done", "exhausted"} => iter_stack = <<>>

PathFollowsStackWitness ==
    /\ fields_pc = "iterating"
    /\ Len(iter_stack) = 3
    /\ iter_path = << Key(<<"a", "b">>), Index(1) >>
    /\ Len(yielded) = 2

====
